---- MODULE Spec2Model ----
(***************************************************************************)
(* Model of the exercise recommendation engine                             *)
(* (src/src/lib/recommendation-engine.js, the second, current copy of the  *)
(* engine in that file, lines 658-1683).                                   *)
(*                                                                         *)
(* Numbers.  JavaScript numbers are modelled as exact rationals <<n, d>>   *)
(* (d > 0, lowest terms); counts (reps, sets, days) are integers.  The     *)
(* arithmetic is exact: where the code rounds (Math.round, Math.floor) the *)
(* model rounds the exact value, half up like Math.round.                  *)
(*                                                                         *)
(* Optional values.  A JavaScript value that may be undefined or null is   *)
(* a record [tag, val] with tag in {"undefined", "null", "num", ...}.      *)
(*                                                                         *)
(* Text.  A message built from a template string is the template's name    *)
(* and the numbers interpolated into it.                                   *)
(*                                                                         *)
(* Time.  An entry's date is a calendar day (an integer); `new Date(date)` *)
(* is that day's midnight.  The clock `now` counts ticks, TicksPerDay to   *)
(* the day, so that `now` can lie strictly inside a day.                   *)
(***************************************************************************)
EXTENDS Integers, Sequences, FiniteSets, TLC

VARIABLES
  history,          \* the caller's history collection (sequence of WorkoutEntry)
  now,              \* the clock read by `new Date()`, in ticks
  req,              \* the request the caller has set up: exercise, userAge, phase
  rec,              \* what generateRecommendation returned for req on this snapshot
  call,             \* the latest direct call of an exported pure function
  PHASE_CONFIG,     \* module-level table
  EXERCISE_CONFIG   \* module-level table

vars == <<history, now, req, rec, call, PHASE_CONFIG, EXERCISE_CONFIG>>

----------------------------------------------------------------------------
(* Bounds of the model *)

MaxHist == 2          \* entries the history may hold
MaxDay == 42          \* last calendar day the clock may reach
TicksPerDay == 2      \* clock resolution
MaxInactive == 1      \* entries that may be soft-excluded at one time

----------------------------------------------------------------------------
(* Exact rational arithmetic standing for JavaScript number arithmetic *)

Abs(x) == IF x < 0 THEN -x ELSE x

RECURSIVE GCD(_, _)
GCD(a, b) == IF b = 0 THEN a ELSE GCD(b, a % b)

Rat(n, d) ==
  LET g == GCD(Abs(n), Abs(d))
      s == IF d < 0 THEN -1 ELSE 1
  IN  <<(s * n) \div g, (s * d) \div g>>

RInt(n) == <<n, 1>>
RZero == <<0, 1>>

RAdd(a, b) == Rat(a[1] * b[2] + b[1] * a[2], a[2] * b[2])
RSub(a, b) == Rat(a[1] * b[2] - b[1] * a[2], a[2] * b[2])
RMul(a, b) ==
  LET g1 == GCD(Abs(a[1]), b[2])
      g2 == GCD(Abs(b[1]), a[2])
  IN  <<(a[1] \div g1) * (b[1] \div g2), (a[2] \div g2) * (b[2] \div g1)>>
RDiv(a, b) == IF b[1] < 0 THEN RMul(a, <<-b[2], -b[1]>>) ELSE RMul(a, <<b[2], b[1]>>)

RLt(a, b) == a[1] * b[2] < b[1] * a[2]
RLe(a, b) == a[1] * b[2] <= b[1] * a[2]
RGt(a, b) == RLt(b, a)
RGe(a, b) == RLe(b, a)
RMax2(a, b) == IF RGt(b, a) THEN b ELSE a
RMin2(a, b) == IF RLt(b, a) THEN b ELSE a

\* Math.round: nearest integer, halves towards +infinity.
MathRound(a) == (2 * a[1] + a[2]) \div (2 * a[2])
\* Math.floor
MathFloor(a) == a[1] \div a[2]

\* Math.max(...xs) / Math.min(...xs) of a non-empty sequence of rationals
RECURSIVE RMaxSeq(_)
RMaxSeq(xs) == IF Len(xs) = 1 THEN xs[1] ELSE RMax2(xs[1], RMaxSeq(Tail(xs)))
RECURSIVE RMinSeq(_)
RMinSeq(xs) == IF Len(xs) = 1 THEN xs[1] ELSE RMin2(xs[1], RMinSeq(Tail(xs)))

----------------------------------------------------------------------------
(* Optional values *)

\* an optional integer (rir, a day count)
Undefined == [tag |-> "undefined", val |-> 0]
Null == [tag |-> "null", val |-> 0]
Num(v) == [tag |-> "num", val |-> v]

\* ToNumber as JavaScript arithmetic and comparison apply it: null is 0.
ToNumber(o) == IF o.tag = "num" THEN o.val ELSE 0

\* a field of a result: absent, null, a number (val a rational) or a string such
\* as '8-12' (val the numbers it is made of)
RUndefined == [tag |-> "undefined", val |-> <<>>]
RNull == [tag |-> "null", val |-> <<>>]
RNum(r) == [tag |-> "num", val |-> r]
RStr(t) == [tag |-> "str", val |-> t]

\* a template string: the template and the numbers it interpolates
Text(kind, args) == [kind |-> kind, args |-> args]

----------------------------------------------------------------------------
(* Module-level configuration *)

PhaseTable ==
  [hypertrophy |-> [intensity_range |-> <<Rat(65, 100), Rat(75, 100)>>,
                    rep_range |-> <<8, 12>>, rep_min |-> 8, rep_max |-> 12,
                    base_sets |-> 4, rir_target |-> 2, rest_seconds |-> <<90, 120>>],
   strength    |-> [intensity_range |-> <<Rat(80, 100), Rat(88, 100)>>,
                    rep_range |-> <<4, 6>>, rep_min |-> 4, rep_max |-> 6,
                    base_sets |-> 5, rir_target |-> 1, rest_seconds |-> <<180, 300>>],
   peaking     |-> [intensity_range |-> <<Rat(90, 100), Rat(97, 100)>>,
                    rep_range |-> <<1, 3>>, rep_min |-> 1, rep_max |-> 3,
                    base_sets |-> 4, rir_target |-> 0, rest_seconds |-> <<300, 420>>],
   explosive   |-> [intensity_range |-> <<Rat(50, 100), Rat(70, 100)>>,
                    rep_range |-> <<2, 5>>, rep_min |-> 2, rep_max |-> 5,
                    base_sets |-> 5, rir_target |-> 3, rest_seconds |-> <<120, 180>>]]

\* e1rm_modifier and rir_adjustment are optional fields: <<0, 1>> and 0 stand for
\* "absent" (the code tests them for truthiness, and 0 is falsy as well).
ExerciseTable ==
  [n \in {"Deadlift", "Squat", "Front Squat", "Bench Press", "Overhead Press",
          "Lunge", "Barbell Row", "_default"} |->
     CASE n = "Deadlift"       -> [load_increment |-> Rat(5, 1), max_weekly_sets |-> 10,
                                   e1rm_modifier |-> RZero, rir_adjustment |-> 0]
       [] n = "Squat"          -> [load_increment |-> Rat(5, 1), max_weekly_sets |-> 16,
                                   e1rm_modifier |-> RZero, rir_adjustment |-> 0]
       [] n = "Front Squat"    -> [load_increment |-> Rat(5, 1), max_weekly_sets |-> 12,
                                   e1rm_modifier |-> Rat(82, 100), rir_adjustment |-> 0]
       [] n = "Bench Press"    -> [load_increment |-> Rat(5, 2), max_weekly_sets |-> 20,
                                   e1rm_modifier |-> RZero, rir_adjustment |-> 0]
       [] n = "Overhead Press" -> [load_increment |-> Rat(5, 4), max_weekly_sets |-> 16,
                                   e1rm_modifier |-> RZero, rir_adjustment |-> 0]
       [] n = "Lunge"          -> [load_increment |-> Rat(5, 2), max_weekly_sets |-> 12,
                                   e1rm_modifier |-> RZero, rir_adjustment |-> 1]
       [] n = "Barbell Row"    -> [load_increment |-> Rat(5, 2), max_weekly_sets |-> 16,
                                   e1rm_modifier |-> RZero, rir_adjustment |-> 0]
       [] OTHER                -> [load_increment |-> Rat(5, 2), max_weekly_sets |-> 16,
                                   e1rm_modifier |-> RZero, rir_adjustment |-> 0]]

\* PHASE_CONFIG[phase] || PHASE_CONFIG.hypertrophy
getPhaseConfig(phase) ==
  IF phase \in DOMAIN PHASE_CONFIG THEN PHASE_CONFIG[phase] ELSE PHASE_CONFIG["hypertrophy"]

\* EXERCISE_CONFIG[exerciseName] || EXERCISE_CONFIG['_default']
getExerciseConfig(exerciseName) ==
  IF exerciseName \in DOMAIN EXERCISE_CONFIG
  THEN EXERCISE_CONFIG[exerciseName]
  ELSE EXERCISE_CONFIG["_default"]

----------------------------------------------------------------------------
(* Core calculations *)

\* Mutant: the guard on non-positive weight or reps is missing.
calculateE1RM_NoGuard(weight, reps, rir) ==
  LET assumedRIR == IF rir.tag # "undefined" THEN ToNumber(rir) ELSE 2
      sum == reps + assumedRIR
      effectiveReps == IF sum < 12 THEN sum ELSE 12
      e1rm == RMul(weight, Rat(36, 37 - effectiveReps))
  IN  Rat(MathRound(RMul(e1rm, RInt(10))), 10)

\* calculateE1RM(weight, reps, rir): weight a rational, reps an integer, rir optional.
calculateE1RM(weight, reps, rir) ==
  IF RLe(weight, RZero) \/ reps <= 0
  THEN RZero
  ELSE LET assumedRIR == IF rir.tag # "undefined" THEN ToNumber(rir) ELSE 2
           sum == reps + assumedRIR
           effectiveReps == IF sum < 12 THEN sum ELSE 12
           e1rm == RMul(weight, Rat(36, 37 - effectiveReps))
       IN  Rat(MathRound(RMul(e1rm, RInt(10))), 10)

\* Mutant: the brackets 41-50 and 51-60 are exchanged.
getAgeMultiplier_BracketsSwapped(age) ==
  IF age <= 30 THEN Rat(100, 100)
  ELSE IF age <= 40 THEN Rat(95, 100)
  ELSE IF age <= 50 THEN Rat(75, 100)
  ELSE IF age <= 60 THEN Rat(85, 100)
  ELSE Rat(65, 100)

getAgeMultiplier(age) ==
  IF age <= 30 THEN Rat(100, 100)
  ELSE IF age <= 40 THEN Rat(95, 100)
  ELSE IF age <= 50 THEN Rat(85, 100)
  ELSE IF age <= 60 THEN Rat(75, 100)
  ELSE Rat(65, 100)

\* Mutant: the floor of 2 sets is missing.
getAdjustedSets_NoFloor(baseSets, age) ==
  MathRound(RMul(RInt(baseSets), getAgeMultiplier(age)))

getAdjustedSets(baseSets, age) ==
  LET multiplier == getAgeMultiplier(age)
      r == MathRound(RMul(RInt(baseSets), multiplier))
  IN  IF r > 2 THEN r ELSE 2

----------------------------------------------------------------------------
(* History analysis.  A WorkoutEntry is a record                            *)
(*   [name, date, weight, reps, rir, isActive]                              *)
(* with date an integer day, weight a rational, rir optional and isActive   *)
(* FALSE exactly when the entry was soft-excluded (the code tests           *)
(* `isActive !== false`, so TRUE also stands for an absent field).          *)

\* new Date(entry.date), in ticks
DateTicks(date) == date * TicksPerDay

IsActive(e) == e.isActive # FALSE

E1RMOf(e) == calculateE1RM(e.weight, e.reps, e.rir)

\* xs.map(f) for a sequence
MapE1RM(xs) == [i \in DOMAIN xs |-> E1RMOf(xs[i])]

\* Array.prototype.sort with (a, b) => new Date(b.date) - new Date(a.date):
\* newest first, stable.
RECURSIVE InsertDesc(_, _)
InsertDesc(e, sorted) ==
  IF sorted = <<>> THEN <<e>>
  ELSE IF sorted[Len(sorted)].date >= e.date THEN Append(sorted, e)
  ELSE Append(InsertDesc(e, SubSeq(sorted, 1, Len(sorted) - 1)), sorted[Len(sorted)])

RECURSIVE SortDateDesc(_)
SortDateDesc(xs) ==
  IF xs = <<>> THEN <<>>
  ELSE InsertDesc(xs[Len(xs)], SortDateDesc(SubSeq(xs, 1, Len(xs) - 1)))

\* Array.prototype.sort with (a, b) => new Date(a.date) - new Date(b.date):
\* oldest first, stable.
RECURSIVE InsertAsc(_, _)
InsertAsc(e, sorted) ==
  IF sorted = <<>> THEN <<e>>
  ELSE IF sorted[Len(sorted)].date <= e.date THEN Append(sorted, e)
  ELSE Append(InsertAsc(e, SubSeq(sorted, 1, Len(sorted) - 1)), sorted[Len(sorted)])

RECURSIVE SortDateAsc(_)
SortDateAsc(xs) ==
  IF xs = <<>> THEN <<>>
  ELSE InsertAsc(xs[Len(xs)], SortDateAsc(SubSeq(xs, 1, Len(xs) - 1)))

\* xs.slice(-3)
SliceLast3(xs) == IF Len(xs) <= 3 THEN xs ELSE SubSeq(xs, Len(xs) - 2, Len(xs))

\* Mutant: the long-term boundaries are exclusive.
determineTrainingStatus_StrictBoundary(currentE1RM, previousE1RM, sessionCount, recentHistory) ==
  IF sessionCount < 2 THEN "insufficient_data"
  ELSE IF RGt(previousE1RM, RZero)
  THEN LET trend == RMul(RDiv(RSub(currentE1RM, previousE1RM), previousE1RM), RInt(100))
       IN  IF RGt(trend, Rat(25, 10)) THEN "progressing"
           ELSE IF RLt(trend, Rat(-25, 10)) THEN "regressing"
           ELSE "plateau"
  ELSE LET sortedRecent == SortDateAsc(SelectSeq(recentHistory, IsActive))
           e1rms == MapE1RM(SliceLast3(sortedRecent))
           firstE1RM == e1rms[1]
           lastE1RM == e1rms[Len(e1rms)]
       IN  IF Len(recentHistory) >= 2 /\ Len(sortedRecent) >= 2
           THEN IF RGt(lastE1RM, RMul(firstE1RM, Rat(101, 100))) THEN "progressing"
                ELSE IF RLt(lastE1RM, RMul(firstE1RM, Rat(98, 100))) THEN "regressing"
                ELSE "plateau"
           ELSE "insufficient_data"

\* Mutant: a session count of 1 is taken for enough data.
determineTrainingStatus_OffByOne(currentE1RM, previousE1RM, sessionCount, recentHistory) ==
  IF sessionCount < 1 THEN "insufficient_data"
  ELSE IF RGt(previousE1RM, RZero)
  THEN LET trend == RMul(RDiv(RSub(currentE1RM, previousE1RM), previousE1RM), RInt(100))
       IN  IF RGe(trend, Rat(25, 10)) THEN "progressing"
           ELSE IF RLe(trend, Rat(-25, 10)) THEN "regressing"
           ELSE "plateau"
  ELSE LET sortedRecent == SortDateAsc(SelectSeq(recentHistory, IsActive))
           e1rms == MapE1RM(SliceLast3(sortedRecent))
           firstE1RM == e1rms[1]
           lastE1RM == e1rms[Len(e1rms)]
       IN  IF Len(recentHistory) >= 2 /\ Len(sortedRecent) >= 2
           THEN IF RGt(lastE1RM, RMul(firstE1RM, Rat(101, 100))) THEN "progressing"
                ELSE IF RLt(lastE1RM, RMul(firstE1RM, Rat(98, 100))) THEN "regressing"
                ELSE "plateau"
           ELSE "insufficient_data"

\* Mutant: the long-term trend is compared as a fraction, not as a percentage.
determineTrainingStatus_TrendAsFraction(currentE1RM, previousE1RM, sessionCount, recentHistory) ==
  IF sessionCount < 2 THEN "insufficient_data"
  ELSE IF RGt(previousE1RM, RZero)
  THEN LET trend == RDiv(RSub(currentE1RM, previousE1RM), previousE1RM)
       IN  IF RGe(trend, Rat(25, 10)) THEN "progressing"
           ELSE IF RLe(trend, Rat(-25, 10)) THEN "regressing"
           ELSE "plateau"
  ELSE LET sortedRecent == SortDateAsc(SelectSeq(recentHistory, IsActive))
           e1rms == MapE1RM(SliceLast3(sortedRecent))
           firstE1RM == e1rms[1]
           lastE1RM == e1rms[Len(e1rms)]
       IN  IF Len(recentHistory) >= 2 /\ Len(sortedRecent) >= 2
           THEN IF RGt(lastE1RM, RMul(firstE1RM, Rat(101, 100))) THEN "progressing"
                ELSE IF RLt(lastE1RM, RMul(firstE1RM, Rat(98, 100))) THEN "regressing"
                ELSE "plateau"
           ELSE "insufficient_data"

\* Mutant: the short-term comparison asks for three recent entries.
determineTrainingStatus_NeedsThreeEntries(currentE1RM, previousE1RM, sessionCount, recentHistory) ==
  IF sessionCount < 2 THEN "insufficient_data"
  ELSE IF RGt(previousE1RM, RZero)
  THEN LET trend == RMul(RDiv(RSub(currentE1RM, previousE1RM), previousE1RM), RInt(100))
       IN  IF RGe(trend, Rat(25, 10)) THEN "progressing"
           ELSE IF RLe(trend, Rat(-25, 10)) THEN "regressing"
           ELSE "plateau"
  ELSE LET sortedRecent == SortDateAsc(SelectSeq(recentHistory, IsActive))
           e1rms == MapE1RM(SliceLast3(sortedRecent))
           firstE1RM == e1rms[1]
           lastE1RM == e1rms[Len(e1rms)]
       IN  IF Len(recentHistory) >= 3 /\ Len(sortedRecent) >= 3
           THEN IF RGt(lastE1RM, RMul(firstE1RM, Rat(101, 100))) THEN "progressing"
                ELSE IF RLt(lastE1RM, RMul(firstE1RM, Rat(98, 100))) THEN "regressing"
                ELSE "plateau"
           ELSE "insufficient_data"

determineTrainingStatus(currentE1RM, previousE1RM, sessionCount, recentHistory) ==
  IF sessionCount < 2 THEN "insufficient_data"
  ELSE IF RGt(previousE1RM, RZero)
  THEN LET trend == RMul(RDiv(RSub(currentE1RM, previousE1RM), previousE1RM), RInt(100))
       IN  IF RGe(trend, Rat(25, 10)) THEN "progressing"
           ELSE IF RLe(trend, Rat(-25, 10)) THEN "regressing"
           ELSE "plateau"
  ELSE LET sortedRecent == SortDateAsc(SelectSeq(recentHistory, IsActive))
           e1rms == MapE1RM(SliceLast3(sortedRecent))
           firstE1RM == e1rms[1]
           lastE1RM == e1rms[Len(e1rms)]
       IN  IF Len(recentHistory) >= 2 /\ Len(sortedRecent) >= 2
           THEN IF RGt(lastE1RM, RMul(firstE1RM, Rat(101, 100))) THEN "progressing"
                ELSE IF RLt(lastE1RM, RMul(firstE1RM, Rat(98, 100))) THEN "regressing"
                ELSE "plateau"
           ELSE "insufficient_data"

\* getHighestE1RMInRange(history, daysAgoStart, daysAgoEnd); reads the clock.
getHighestE1RMInRange(h, daysAgoStart, daysAgoEnd) ==
  LET startDate == now - daysAgoStart * TicksPerDay
      endDate == now - daysAgoEnd * TicksPerDay
      InRange(entry) == /\ entry.isActive # FALSE
                        /\ DateTicks(entry.date) <= startDate
                        /\ DateTicks(entry.date) >= endDate
      entriesInRange == SelectSeq(h, InRange)
  IN  IF Len(entriesInRange) = 0 THEN RZero ELSE RMaxSeq(MapE1RM(entriesInRange))

\* Mutant: among entries of the same date the last one wins.
RECURSIVE ReduceLatest_LastOnTies(_, _)
ReduceLatest_LastOnTies(latest, rest) ==
  IF rest = <<>> THEN latest
  ELSE ReduceLatest_LastOnTies(IF rest[1].date >= latest.date THEN rest[1] ELSE latest, Tail(rest))

\* reduce((latest, entry) => new Date(entry.date) > new Date(latest.date) ? entry : latest)
RECURSIVE ReduceLatest(_, _)
ReduceLatest(latest, rest) ==
  IF rest = <<>> THEN latest
  ELSE ReduceLatest(IF rest[1].date > latest.date THEN rest[1] ELSE latest, Tail(rest))

\* getMostRecentEntry(history): [tag |-> "null"] or [tag |-> "entry", val |-> e]
NoEntry == [tag |-> "null", val |-> <<>>]
getMostRecentEntry(h) ==
  LET activeEntries == SelectSeq(h, IsActive)
  IN  IF Len(activeEntries) = 0 THEN NoEntry
      ELSE [tag |-> "entry", val |-> ReduceLatest(activeEntries[1], Tail(activeEntries))]

countSessions(h) ==
  LET activeEntries == SelectSeq(h, IsActive)
  IN  Cardinality({activeEntries[i].date : i \in DOMAIN activeEntries})

\* getDaysSinceLastSession(history): Null or Num(days); reads the clock.
getDaysSinceLastSession(h) ==
  LET lastEntry == getMostRecentEntry(h)
  IN  IF lastEntry.tag = "null" THEN Null
      ELSE Num(MathFloor(Rat(now - DateTicks(lastEntry.val.date), TicksPerDay)))

\* Mutant: the top of the range counts only when exceeded.
hitTopOfRepRange_Exceeded(h, repMax) ==
  LET lastEntry == getMostRecentEntry(h)
  IN  IF lastEntry.tag = "null" THEN FALSE ELSE lastEntry.val.reps > repMax

hitTopOfRepRange(h, repMax) ==
  LET lastEntry == getMostRecentEntry(h)
  IN  IF lastEntry.tag = "null" THEN FALSE ELSE lastEntry.val.reps >= repMax

\* getLastSessionWeight(history): RNull or RNum(weight)
getLastSessionWeight(h) ==
  LET lastEntry == getMostRecentEntry(h)
  IN  IF lastEntry.tag = "null" THEN RNull ELSE RNum(lastEntry.val.weight)

\* The first dates, in order of first appearance, of a sequence of entries (at most 3).
RECURSIVE FirstUniqueDates(_, _)
FirstUniqueDates(xs, acc) ==
  IF xs = <<>> \/ Len(acc) >= 3 THEN acc
  ELSE IF \E i \in DOMAIN acc : acc[i] = xs[1].date
       THEN FirstUniqueDates(Tail(xs), acc)
       ELSE FirstUniqueDates(Tail(xs), Append(acc, xs[1].date))

\* Mutant: a session counts with its weakest set.
detectPlateau_WeakestSet(h) ==
  LET activeEntries == SelectSeq(h, IsActive)
      sortedEntries == SortDateDesc(activeEntries)
      uniqueDates == FirstUniqueDates(sortedEntries, <<>>)
      SessionWorst(date) ==
        LET OnDate(e) == e.date = date
        IN  RMinSeq(MapE1RM(SelectSeq(sortedEntries, OnDate)))
      sessionE1RMs == [i \in DOMAIN uniqueDates |-> SessionWorst(uniqueDates[i])]
      maxE1RM == RMaxSeq(sessionE1RMs)
      minE1RM == RMinSeq(sessionE1RMs)
  IN  IF Len(activeEntries) < 3 THEN FALSE
      ELSE IF Len(uniqueDates) < 3 THEN FALSE
      ELSE IF minE1RM = RZero THEN FALSE
      ELSE RLt(RDiv(RSub(maxE1RM, minE1RM), minE1RM), Rat(2, 100))

detectPlateau(h) ==
  LET activeEntries == SelectSeq(h, IsActive)
      sortedEntries == SortDateDesc(activeEntries)
      uniqueDates == FirstUniqueDates(sortedEntries, <<>>)
      SessionBest(date) ==
        LET OnDate(e) == e.date = date
        IN  RMaxSeq(MapE1RM(SelectSeq(sortedEntries, OnDate)))
      sessionE1RMs == [i \in DOMAIN uniqueDates |-> SessionBest(uniqueDates[i])]
      maxE1RM == RMaxSeq(sessionE1RMs)
      minE1RM == RMinSeq(sessionE1RMs)
  IN  IF Len(activeEntries) < 3 THEN FALSE
      ELSE IF Len(uniqueDates) < 3 THEN FALSE
      \* a zero minimum makes the quotient Infinity or NaN, and the comparison false
      ELSE IF minE1RM = RZero THEN FALSE
      ELSE RLt(RDiv(RSub(maxE1RM, minE1RM), minE1RM), Rat(2, 100))

Strategies == <<"micro_load", "add_set", "extend_rep_ceiling", "reset">>

getPlateauStrategy(exerciseName, plateauCount) ==
  Strategies[(plateauCount % Len(Strategies)) + 1]

\* Math.round(weight / 1.25) * 1.25
roundToIncrement(weight) ==
  RMul(RInt(MathRound(RDiv(weight, Rat(125, 100)))), Rat(125, 100))

----------------------------------------------------------------------------
(* Benchmark analysis and the reasoning breakdown *)

\* Mutant: on equal estimates the later set replaces the earlier one.
RECURSIVE ReduceBest_LastOnTies(_, _)
ReduceBest_LastOnTies(best, rest) ==
  IF rest = <<>> THEN best
  ELSE ReduceBest_LastOnTies(IF RGe(rest[1].e1rm, best.e1rm) THEN rest[1] ELSE best, Tail(rest))

\* reduce((best, current) => current.e1rm > best.e1rm ? current : best)
RECURSIVE ReduceBest(_, _)
ReduceBest(best, rest) ==
  IF rest = <<>> THEN best
  ELSE ReduceBest(IF RGt(rest[1].e1rm, best.e1rm) THEN rest[1] ELSE best, Tail(rest))

NoSet == [weight |-> RZero, reps |-> 0, rir |-> Undefined, e1rm |-> RZero]

\* exerciseConfig.e1rm_modifier || 1.0
ModifierOrOne(exerciseConfig) ==
  IF exerciseConfig.e1rm_modifier # RZero THEN exerciseConfig.e1rm_modifier ELSE RInt(1)

analyzeBenchmarkSession(sessionHistory, exerciseName) ==
  IF Len(sessionHistory) = 0
  THEN [benchmarkCompleted |-> FALSE, highestE1RM |-> RZero, bestSet |-> NoSet,
        hasBestSet |-> FALSE, totalSets |-> 0, allSets |-> <<>>]
  ELSE LET exerciseConfig == getExerciseConfig(exerciseName)
           setsWithE1RM == [i \in DOMAIN sessionHistory |->
                              [weight |-> sessionHistory[i].weight,
                               reps |-> sessionHistory[i].reps,
                               rir |-> sessionHistory[i].rir,
                               e1rm |-> E1RMOf(sessionHistory[i])]]
           bestSet == ReduceBest(setsWithE1RM[1], Tail(setsWithE1RM))
           adjustedE1RM == RMul(bestSet.e1rm, ModifierOrOne(exerciseConfig))
       IN  [benchmarkCompleted |-> TRUE,
            highestE1RM |-> adjustedE1RM,
            bestSet |-> [weight |-> bestSet.weight, reps |-> bestSet.reps,
                         rir |-> bestSet.rir, e1rm |-> adjustedE1RM],
            hasBestSet |-> TRUE,
            totalSets |-> Len(sessionHistory),
            allSets |-> setsWithE1RM]

\* `if (x)` on an optional number: null, undefined and 0 are falsy
Truthy(o) == o.tag = "num" /\ o.val # RZero

\* x.toFixed(1): the number of tenths
Tenths(x) == MathRound(RMul(x, RInt(10)))

\* lastE1RM > 0 ? ((e - lastE1RM) / lastE1RM * 100) : 0, as printed by toFixed(1)
ChangeTenths(e, lastE1RM) ==
  IF RGt(lastE1RM, RZero)
  THEN Tenths(RMul(RDiv(RSub(e, lastE1RM), lastE1RM), RInt(100)))
  ELSE 0

\* the digits an optional rir is printed with: <<>> when not printed
RirArgs(rir) == IF rir.tag = "num" THEN <<rir.val>> ELSE <<>>

buildReasoningBreakdown(lastEntry, trainingStatus, prescribedWeight, targetReps, phaseConfig, exerciseConfig, currentE1RM, previousE1RM) ==
  IF lastEntry.tag = "null"
  THEN [last_session |-> Text("no_previous_sessions", <<>>),
        trend |-> Text("starting_fresh", <<>>),
        next_step |-> Text("establish_baseline", <<>>),
        calculation |-> Text("conservative_estimate", <<>>)]
  ELSE
    LET e == lastEntry.val
        lastSessionDesc ==
          Text(IF e.rir.tag # "undefined" THEN "weight_reps_rir" ELSE "weight_reps",
               e.weight \o <<e.reps>> \o RirArgs(e.rir))
        trend ==
          IF RGt(previousE1RM, RZero) /\ RGt(currentE1RM, RZero)
          THEN Text("vs_4_weeks_ago",
                    <<Tenths(RMul(RDiv(RSub(currentE1RM, previousE1RM), previousE1RM),
                                  RInt(100)))>>)
          ELSE Text(CASE trainingStatus = "progressing" -> "improving_session_to_session"
                      [] trainingStatus = "plateau" -> "stable_performance"
                      [] trainingStatus = "regressing" -> "declining_performance"
                      [] OTHER -> "building_training_history", <<>>)
        plus1 == IF e.reps + 1 < phaseConfig.rep_max THEN e.reps + 1 ELSE phaseConfig.rep_max
        nextStep ==
          IF trainingStatus = "progressing"
          THEN IF e.reps >= phaseConfig.rep_max
               THEN Text("time_to_increase_weight",
                         <<phaseConfig.rep_max>> \o exerciseConfig.load_increment)
               ELSE IF Truthy(targetReps)
               THEN Text("keep_pushing_target", targetReps.val)
               ELSE Text("keep_pushing_target", RInt(plus1))
          ELSE IF trainingStatus = "plateau"
          THEN IF Truthy(targetReps)
               THEN Text("break_plateau_target", targetReps.val)
               ELSE Text("break_plateau_quality", <<>>)
          ELSE IF trainingStatus = "regressing"
          THEN Text("take_deload_week", <<>>)
          ELSE IF Truthy(targetReps)
               THEN Text("build_momentum_target", targetReps.val)
               ELSE Text("build_momentum", <<>>)
        calculation ==
          IF Truthy(prescribedWeight)
          THEN IF RGt(prescribedWeight.val, e.weight)
               THEN Text("weight_plus_increment",
                         prescribedWeight.val \o e.weight \o exerciseConfig.load_increment)
               ELSE IF Truthy(targetReps)
               THEN Text("maintain_weight_target", prescribedWeight.val \o targetReps.val)
               ELSE Text("maintain_weight_add_reps", prescribedWeight.val)
          ELSE Text("weight_to_be_determined", <<>>)
    IN  [last_session |-> lastSessionDesc, trend |-> trend,
         next_step |-> nextStep, calculation |-> calculation]

----------------------------------------------------------------------------
(* generateRecommendation.  A result is a record with every field of every *)
(* result shape; a field a shape does not have is RUndefined.              *)

FlagArray(fs) == [tag |-> "array", val |-> fs]
NoFlags == [tag |-> "null", val |-> <<>>]

NoBaseline == [tag |-> "undefined", e1rm |-> RZero, bestSet |-> NoSet, sessionDate |-> 0]

\* (intensity_range[0] + intensity_range[1]) / 2
TargetIntensity(phaseConfig) ==
  RDiv(RAdd(phaseConfig.intensity_range[1], phaseConfig.intensity_range[2]), RInt(2))

\* Math.round(x * 10) / 10
RoundTenth(x) == Rat(Tenths(x), 10)

\* Edge case: no active entry of the exercise (benchmark mode).
BenchmarkModeResult(exercise) ==
  [exercise |-> exercise,
   benchmark_mode |-> "true",
   benchmark_baseline |-> NoBaseline,
   prescription |-> [sets |-> RStr(<<3, 5>>), reps |-> RStr(<<5, 12>>),
                     target_reps |-> RUndefined, weight_kg |-> RNull,
                     rest_seconds |-> RStr(<<90, 120>>), rir_target |-> 3,
                     benchmark_instructions |-> RStr(<<4>>)],
   intensity_percent |-> RNull,
   calculated_e1rm_kg |-> RZero,
   training_status |-> "benchmark_mode",
   progression_rationale |-> Text("benchmark_session", <<>>),
   flags |-> FlagArray(<<"benchmark_mode">>),
   reasoning_breakdown |->
     [last_session |-> Text("no_previous_data", <<>>),
      trend |-> Text("establishing_baseline", <<>>),
      next_step |-> Text("complete_3_5_sets", <<>>),
      calculation |-> Text("highest_e1rm_is_baseline", <<>>)]]

\* workingE1RM as both the break route and the normal path first compute it
WorkingE1RM(activeHistory, currentE1RM, exerciseConfig) ==
  LET lastEntry == getMostRecentEntry(activeHistory)
      w0 == IF RLe(currentE1RM, RZero)
            THEN IF lastEntry.tag = "null" THEN RZero ELSE E1RMOf(lastEntry.val)
            ELSE currentE1RM
  IN  IF exerciseConfig.e1rm_modifier # RZero
      THEN RMul(w0, exerciseConfig.e1rm_modifier)
      ELSE w0

\* Edge case: returning from a break of more than 14 days.
ReturnFromBreakResult(exercise, activeHistory, userAge, phaseConfig, exerciseConfig, daysSinceLastSession) ==
  LET currentE1RM == getHighestE1RMInRange(activeHistory, 0, 14)
      previousE1RM == getHighestE1RMInRange(activeHistory, 28, 42)
      workingE1RM == WorkingE1RM(activeHistory, currentE1RM, exerciseConfig)
      reductionPercent == IF daysSinceLastSession > 28 THEN Rat(15, 100) ELSE Rat(10, 100)
      reducedE1RM == RMul(workingE1RM, RSub(RInt(1), reductionPercent))
      targetIntensity == TargetIntensity(phaseConfig)
      adjustedWeight == roundToIncrement(RMul(reducedE1RM, targetIntensity))
      adjustedSets == getAdjustedSets(phaseConfig.base_sets, userAge)
      lastEntry == getMostRecentEntry(activeHistory)
  IN  [exercise |-> exercise,
       benchmark_mode |-> "undefined",
       benchmark_baseline |-> NoBaseline,
       prescription |-> [sets |-> RNum(RInt(adjustedSets)),
                         reps |-> RStr(phaseConfig.rep_range),
                         target_reps |-> RUndefined,
                         weight_kg |-> RNum(adjustedWeight),
                         rest_seconds |-> RStr(phaseConfig.rest_seconds),
                         rir_target |-> phaseConfig.rir_target + 1,
                         benchmark_instructions |-> RUndefined],
       intensity_percent |->
         RNum(RInt(MathRound(RMul(RMul(targetIntensity, RInt(100)),
                                  RSub(RInt(1), reductionPercent))))),
       calculated_e1rm_kg |-> RoundTenth(workingE1RM),
       training_status |-> "insufficient_data",
       progression_rationale |->
         Text("days_since_last_session",
              <<daysSinceLastSession, MathRound(RMul(reductionPercent, RInt(100)))>>),
       flags |-> FlagArray(<<"returning_from_break">>),
       reasoning_breakdown |->
         buildReasoningBreakdown(lastEntry, "insufficient_data", RNum(adjustedWeight),
                                 RNull, phaseConfig, exerciseConfig,
                                 currentE1RM, previousE1RM)]

\* Edge case: exactly one session date, not returning from a break.
PostBenchmarkResult(exercise, activeHistory, userAge, phaseConfig, exerciseConfig) ==
  LET benchmarkDate == activeHistory[Len(activeHistory)].date   \* the earliest date
      OnBenchmarkDate(e) == e.date = benchmarkDate
      benchmarkHistory == SelectSeq(activeHistory, OnBenchmarkDate)
      benchmarkAnalysis == analyzeBenchmarkSession(benchmarkHistory, exercise)
      baselineE1RM == benchmarkAnalysis.highestE1RM
      targetIntensity == TargetIntensity(phaseConfig)
      prescribedWeight == roundToIncrement(RMul(baselineE1RM, targetIntensity))
      targetReps == (phaseConfig.rep_min + phaseConfig.rep_max) \div 2
      adjustedSets == getAdjustedSets(phaseConfig.base_sets, userAge)
      pct == MathRound(RMul(targetIntensity, RInt(100)))
  IN  IF ~benchmarkAnalysis.benchmarkCompleted
      THEN [exercise |-> exercise,
            benchmark_mode |-> "undefined",
            benchmark_baseline |-> NoBaseline,
            prescription |-> [sets |-> RNum(RInt(3)), reps |-> RStr(<<8, 10>>),
                              target_reps |-> RUndefined, weight_kg |-> RNull,
                              rest_seconds |-> RStr(<<120>>), rir_target |-> 3,
                              benchmark_instructions |-> RUndefined],
            intensity_percent |-> RNum(RInt(60)),
            calculated_e1rm_kg |-> RZero,
            training_status |-> "insufficient_data",
            progression_rationale |-> Text("unable_to_analyze_benchmark", <<>>),
            flags |-> FlagArray(<<"benchmark_analysis_failed">>),
            reasoning_breakdown |->
              buildReasoningBreakdown(NoEntry, "insufficient_data", RNull, RNull,
                                      phaseConfig, exerciseConfig, RZero, RZero)]
      ELSE [exercise |-> exercise,
            benchmark_mode |-> "false",
            benchmark_baseline |-> [tag |-> "object",
                                    e1rm |-> benchmarkAnalysis.highestE1RM,
                                    bestSet |-> benchmarkAnalysis.bestSet,
                                    sessionDate |-> benchmarkDate],
            prescription |-> [sets |-> RNum(RInt(adjustedSets)),
                              reps |-> RStr(<<phaseConfig.rep_min, phaseConfig.rep_max>>),
                              target_reps |-> RNum(RInt(targetReps)),
                              weight_kg |-> RNum(prescribedWeight),
                              rest_seconds |-> RStr(phaseConfig.rest_seconds),
                              rir_target |-> phaseConfig.rir_target,
                              benchmark_instructions |-> RUndefined],
            intensity_percent |-> RNum(RInt(pct)),
            calculated_e1rm_kg |-> baselineE1RM,
            training_status |-> "progressive",
            progression_rationale |->
              Text("benchmark_complete", <<MathRound(baselineE1RM), pct>>),
            flags |-> FlagArray(<<"post_benchmark_first_prescription">>),
            reasoning_breakdown |->
              [last_session |-> Text("benchmark_set",
                                     benchmarkAnalysis.bestSet.weight
                                       \o <<benchmarkAnalysis.bestSet.reps>>),
               trend |-> Text("baseline_established", <<>>),
               next_step |-> Text("progressive_training_begins", prescribedWeight),
               calculation |-> Text("percent_of_e1rm",
                                    <<pct, MathRound(baselineE1RM)>> \o prescribedWeight)]]


\* Math.min(a, b) on integers
Min2(a, b) == IF a < b THEN a ELSE b

\* activeHistory.filter(e => e.weight === lastWeight).length
CountAtWeight(activeHistory, lastWeight) ==
  Cardinality({i \in DOMAIN activeHistory : activeHistory[i].weight = lastWeight})

\* The progression logic applied by training status: what it leaves in
\* prescribedWeight, targetReps and rationale, and the flags it pushes.
\* basePrescribed is prescribedWeight as computed before (from workingE1RM).
\* The 'regressing' status returns early and is built by DeloadResult.
Progression(trainingStatus, exercise, activeHistory, lastEntry, lastWeight, basePrescribed, workingE1RM, phaseConfig, exerciseConfig) ==
  LET e == lastEntry.val
      lastE1RM == E1RMOf(e)
      lastRIR == IF lastEntry.tag = "null" THEN Undefined ELSE e.rir
      rirAtOrBelowTarget ==
        lastRIR.tag = "undefined" \/ ToNumber(lastRIR) <= phaseConfig.rir_target
      heldWeight == IF RGt(lastWeight, RZero) THEN lastWeight ELSE basePrescribed
      plusOneRep == IF lastEntry.tag = "null" THEN RNull
                    ELSE RNum(RInt(Min2(e.reps + 1, phaseConfig.rep_max)))
      EstChange(weight, reps) ==
        ChangeTenths(calculateE1RM(weight, reps, Num(phaseConfig.rir_target)), lastE1RM)
      HeldChange ==
        IF Truthy(plusOneRep)
        THEN EstChange(heldWeight, plusOneRep.val[1])
        ELSE ChangeTenths(RZero, lastE1RM)
  IN
  IF trainingStatus = "progressing"
  THEN IF hitTopOfRepRange(activeHistory, phaseConfig.rep_max) /\ rirAtOrBelowTarget
       THEN LET w == roundToIncrement(RAdd(lastWeight, exerciseConfig.load_increment))
            IN  [weight |-> w,
                 targetReps |-> RNum(RInt(phaseConfig.rep_min)),
                 rationale |-> Text("hit_top_increasing_load",
                                    <<phaseConfig.rep_max>> \o RirArgs(lastRIR)
                                      \o exerciseConfig.load_increment
                                      \o <<EstChange(w, phaseConfig.rep_min)>>),
                 flags |-> <<>>]
       ELSE [weight |-> heldWeight,
             targetReps |-> plusOneRep,
             rationale |-> Text("progress_continues", plusOneRep.val \o <<HeldChange>>),
             flags |-> <<>>]
  ELSE IF trainingStatus = "plateau"
  THEN IF detectPlateau(activeHistory)
       THEN LET plateauCount == CountAtWeight(activeHistory, lastWeight)
                strategy == getPlateauStrategy(exercise, plateauCount)
                half == RDiv(exerciseConfig.load_increment, RInt(2))
                micro == roundToIncrement(RAdd(lastWeight, half))
                reset == roundToIncrement(RMul(lastWeight, Rat(9, 10)))
            IN  CASE strategy = "micro_load" ->
                       [weight |-> micro,
                        targetReps |-> RNum(RInt(phaseConfig.rep_min)),
                        rationale |-> Text("plateau_micro_load",
                                           half \o <<EstChange(micro, phaseConfig.rep_min)>>),
                        flags |-> <<"plateau_strategy_applied">>]
                  [] strategy = "add_set" ->
                       [weight |-> lastWeight,
                        targetReps |-> RNull,
                        rationale |-> Text("plateau_add_set", <<>>),
                        flags |-> <<"plateau_strategy_applied">>]
                  [] strategy = "extend_rep_ceiling" ->
                       [weight |-> lastWeight,
                        targetReps |-> RNum(RInt(phaseConfig.rep_max + 2)),
                        rationale |-> Text("plateau_extend_rep_ceiling",
                                           <<phaseConfig.rep_max + 2,
                                             EstChange(lastWeight, phaseConfig.rep_max + 2)>>),
                        flags |-> <<"plateau_strategy_applied">>]
                  [] strategy = "reset" ->
                       [weight |-> reset,
                        targetReps |-> RNum(RInt(phaseConfig.rep_max)),
                        rationale |-> Text("plateau_reset",
                                           <<EstChange(reset, phaseConfig.rep_max)>>),
                        flags |-> <<"plateau_strategy_applied">>]
       ELSE [weight |-> heldWeight,
             targetReps |-> plusOneRep,
             rationale |-> Text("stable_performance", plusOneRep.val \o <<HeldChange>>),
             flags |-> <<>>]
  ELSE IF trainingStatus = "insufficient_data"
  THEN IF lastEntry.tag # "null" /\ RGt(lastWeight, RZero)
       THEN IF e.reps >= phaseConfig.rep_max /\ rirAtOrBelowTarget
            THEN LET w == roundToIncrement(RAdd(lastWeight, exerciseConfig.load_increment))
                 IN  [weight |-> w,
                      targetReps |-> RNum(RInt(phaseConfig.rep_min)),
                      rationale |-> Text("building_increasing_weight",
                                         lastWeight \o <<e.reps>> \o w
                                           \o <<phaseConfig.rep_min,
                                                EstChange(w, phaseConfig.rep_min)>>),
                      flags |-> <<"progressive_loading_from_recent_session">>]
            ELSE IF e.reps >= phaseConfig.rep_min
            THEN LET t == Min2(e.reps + 1, phaseConfig.rep_max)
                 IN  [weight |-> lastWeight,
                      targetReps |-> RNum(RInt(t)),
                      rationale |-> Text("building_aim_for_reps",
                                         lastWeight \o <<e.reps, t, EstChange(lastWeight, t)>>),
                      flags |-> <<"progressive_loading_from_recent_session">>]
            ELSE [weight |-> lastWeight,
                  targetReps |-> RNum(RInt(phaseConfig.rep_min)),
                  rationale |-> Text("consolidating",
                                     lastWeight
                                       \o <<phaseConfig.rep_min,
                                            EstChange(lastWeight, phaseConfig.rep_min)>>),
                  flags |-> <<"progressive_loading_from_recent_session">>]
       ELSE [weight |-> roundToIncrement(RMul(workingE1RM, Rat(70, 100))),
             targetReps |-> RNull,
             rationale |-> Text("establishing_baseline", <<>>),
             flags |-> <<"baseline_establishment_phase">>]
  ELSE [weight |-> basePrescribed, targetReps |-> RNull,
        rationale |-> Text("", <<>>), flags |-> <<>>]

\* Mutant: the deload's effort margin leaves out the exercise's adjustment.
DeloadResult_PhaseMarginOnly(exercise, lastEntry, lastWeight, adjustedSets, rirTarget, targetIntensity, workingE1RM, flags, phaseConfig, exerciseConfig, currentE1RM, previousE1RM) ==
  LET half == MathRound(RMul(RInt(adjustedSets), Rat(5, 10)))
      deloadSets == IF half > 2 THEN half ELSE 2
      prescribedWeight == roundToIncrement(RMul(lastWeight, Rat(75, 100)))
  IN  [exercise |-> exercise,
       benchmark_mode |-> "undefined",
       benchmark_baseline |-> NoBaseline,
       prescription |-> [sets |-> RNum(RInt(deloadSets)),
                         reps |-> RStr(phaseConfig.rep_range),
                         target_reps |-> RUndefined,
                         weight_kg |-> RNum(prescribedWeight),
                         rest_seconds |-> RStr(phaseConfig.rest_seconds),
                         rir_target |-> phaseConfig.rir_target + 2,
                         benchmark_instructions |-> RUndefined],
       intensity_percent |->
         RNum(RInt(MathRound(RMul(RMul(Rat(75, 100), targetIntensity), RInt(100))))),
       calculated_e1rm_kg |-> RoundTenth(workingE1RM),
       training_status |-> "regressing",
       progression_rationale |-> Text("deload_recommended", <<>>),
       flags |-> FlagArray(Append(flags, "recovery_week_recommended")),
       reasoning_breakdown |->
         buildReasoningBreakdown(lastEntry, "regressing", RNum(prescribedWeight), RNull,
                                 phaseConfig, exerciseConfig, currentE1RM, previousE1RM)]

\* The 'regressing' branch: the deload prescription, returned at once.
DeloadResult(exercise, lastEntry, lastWeight, adjustedSets, rirTarget, targetIntensity, workingE1RM, flags, phaseConfig, exerciseConfig, currentE1RM, previousE1RM) ==
  LET half == MathRound(RMul(RInt(adjustedSets), Rat(5, 10)))
      deloadSets == IF half > 2 THEN half ELSE 2
      prescribedWeight == roundToIncrement(RMul(lastWeight, Rat(75, 100)))
  IN  [exercise |-> exercise,
       benchmark_mode |-> "undefined",
       benchmark_baseline |-> NoBaseline,
       prescription |-> [sets |-> RNum(RInt(deloadSets)),
                         reps |-> RStr(phaseConfig.rep_range),
                         target_reps |-> RUndefined,
                         weight_kg |-> RNum(prescribedWeight),
                         rest_seconds |-> RStr(phaseConfig.rest_seconds),
                         rir_target |-> rirTarget + 2,
                         benchmark_instructions |-> RUndefined],
       intensity_percent |->
         RNum(RInt(MathRound(RMul(RMul(Rat(75, 100), targetIntensity), RInt(100))))),
       calculated_e1rm_kg |-> RoundTenth(workingE1RM),
       training_status |-> "regressing",
       progression_rationale |-> Text("deload_recommended", <<>>),
       flags |-> FlagArray(Append(flags, "recovery_week_recommended")),
       reasoning_breakdown |->
         buildReasoningBreakdown(lastEntry, "regressing", RNum(prescribedWeight), RNull,
                                 phaseConfig, exerciseConfig, currentE1RM, previousE1RM)]

\* Math.round((prescribedWeight / workingE1RM) * 100) || Math.round(targetIntensity * 100)
IntensityPercent(prescribedWeight, workingE1RM, targetIntensity) ==
  LET fallback == RNum(RInt(MathRound(RMul(targetIntensity, RInt(100)))))
  IN  IF workingE1RM = RZero
      THEN IF prescribedWeight = RZero THEN fallback      \* NaN is falsy
           ELSE [tag |-> "infinity",
                 val |-> IF RGt(prescribedWeight, RZero) THEN <<1>> ELSE <<-1>>]
      ELSE LET r == MathRound(RMul(RDiv(prescribedWeight, workingE1RM), RInt(100)))
           IN  IF r = 0 THEN fallback ELSE RNum(RInt(r))

\* The normal path: at least two session dates, the last one at most 14 days old.
NormalPathResult(exercise, activeHistory, sessionCount, userAge, phaseConfig, exerciseConfig) ==
  LET currentE1RM == getHighestE1RMInRange(activeHistory, 0, 14)
      previousE1RM == getHighestE1RMInRange(activeHistory, 28, 42)
      working0 == WorkingE1RM(activeHistory, currentE1RM, exerciseConfig)
      significantLoss ==
        /\ RGt(previousE1RM, RZero)
        /\ RLt(RDiv(RSub(working0, previousE1RM), previousE1RM), Rat(-10, 100))
      workingE1RM ==
        IF significantLoss /\ RGt(currentE1RM, RZero) THEN currentE1RM ELSE working0
      lastEntry == getMostRecentEntry(activeHistory)
      highRep == lastEntry.tag # "null" /\ lastEntry.val.reps > 15
      flags0 == (IF significantLoss THEN <<"significant_strength_loss_detected">> ELSE <<>>)
                \o (IF highRep THEN <<"high_rep_data_detected_e1rm_estimated">> ELSE <<>>)
      trainingStatus ==
        determineTrainingStatus(currentE1RM, previousE1RM, sessionCount, activeHistory)
      lastW == getLastSessionWeight(activeHistory)
      lastWeight == IF Truthy(lastW) THEN lastW.val ELSE RZero
      targetIntensity == TargetIntensity(phaseConfig)
      basePrescribed == roundToIncrement(RMul(workingE1RM, targetIntensity))
      adjustedSets == getAdjustedSets(phaseConfig.base_sets, userAge)
      rirTarget == IF exerciseConfig.rir_adjustment # 0
                   THEN phaseConfig.rir_target + exerciseConfig.rir_adjustment
                   ELSE phaseConfig.rir_target
      p == Progression(trainingStatus, exercise, activeHistory, lastEntry, lastWeight,
                       basePrescribed, workingE1RM, phaseConfig, exerciseConfig)
      flags == flags0 \o p.flags
  IN  IF trainingStatus = "regressing"
      THEN DeloadResult(exercise, lastEntry, lastWeight, adjustedSets, rirTarget,
                        targetIntensity, workingE1RM, flags0, phaseConfig, exerciseConfig,
                        currentE1RM, previousE1RM)
      ELSE [exercise |-> exercise,
            benchmark_mode |-> "undefined",
            benchmark_baseline |-> NoBaseline,
            prescription |-> [sets |-> RNum(RInt(adjustedSets)),
                              reps |-> RStr(phaseConfig.rep_range),
                              target_reps |-> p.targetReps,
                              weight_kg |-> RNum(p.weight),
                              rest_seconds |-> RStr(phaseConfig.rest_seconds),
                              rir_target |-> rirTarget,
                              benchmark_instructions |-> RUndefined],
            intensity_percent |-> IntensityPercent(p.weight, workingE1RM, targetIntensity),
            calculated_e1rm_kg |-> RoundTenth(workingE1RM),
            training_status |-> trainingStatus,
            progression_rationale |-> p.rationale,
            flags |-> IF Len(flags) > 0 THEN FlagArray(flags) ELSE NoFlags,
            reasoning_breakdown |->
              buildReasoningBreakdown(lastEntry, trainingStatus, RNum(p.weight),
                                      p.targetReps, phaseConfig, exerciseConfig,
                                      currentE1RM, previousE1RM)]

\* Mutant: the filter keeps soft-excluded entries.
ActiveHistory_IgnoresIsActive(exercise, h) ==
  LET Mine(e) == e.name = exercise
  IN  SortDateDesc(SelectSeq(h, Mine))

\* activeHistory: history.filter(name === exercise && isActive !== false).sort(newest first)
ActiveHistory(exercise, h) ==
  LET Mine(e) == e.name = exercise /\ e.isActive # FALSE
  IN  SortDateDesc(SelectSeq(h, Mine))

\* Mutant: the long-break guard sets its flag but does not return.
generateRecommendation_BreakFallsThrough(exercise, h, userAge, phase) ==
  LET phaseConfig == getPhaseConfig(phase)
      exerciseConfig == getExerciseConfig(exercise)
      activeHistory == ActiveHistory(exercise, h)
      sessionCount == countSessions(activeHistory)
      daysSinceLastSession == getDaysSinceLastSession(activeHistory)
      rest == IF sessionCount = 1
              THEN PostBenchmarkResult(exercise, activeHistory, userAge, phaseConfig, exerciseConfig)
              ELSE NormalPathResult(exercise, activeHistory, sessionCount, userAge, phaseConfig, exerciseConfig)
  IN  IF Len(activeHistory) = 0
      THEN BenchmarkModeResult(exercise)
      ELSE IF daysSinceLastSession.tag # "null" /\ daysSinceLastSession.val > 14
      THEN [rest EXCEPT !.flags = FlagArray(<<"returning_from_break">> \o rest.flags.val)]
      ELSE rest

\* Mutant: a break starts at 14 days, not after them.
generateRecommendation_BreakAt14(exercise, h, userAge, phase) ==
  LET phaseConfig == getPhaseConfig(phase)
      exerciseConfig == getExerciseConfig(exercise)
      activeHistory == ActiveHistory(exercise, h)
      sessionCount == countSessions(activeHistory)
      daysSinceLastSession == getDaysSinceLastSession(activeHistory)
  IN  IF Len(activeHistory) = 0
      THEN BenchmarkModeResult(exercise)
      ELSE IF daysSinceLastSession.tag # "null" /\ daysSinceLastSession.val >= 14
      THEN ReturnFromBreakResult(exercise, activeHistory, userAge, phaseConfig,
                                 exerciseConfig, daysSinceLastSession.val)
      ELSE IF sessionCount = 1
      THEN PostBenchmarkResult(exercise, activeHistory, userAge, phaseConfig, exerciseConfig)
      ELSE NormalPathResult(exercise, activeHistory, sessionCount, userAge, phaseConfig,
                            exerciseConfig)

\* Mutant: the single-session check runs before the long-break check.
generateRecommendation_SingleSessionFirst(exercise, h, userAge, phase) ==
  LET phaseConfig == getPhaseConfig(phase)
      exerciseConfig == getExerciseConfig(exercise)
      activeHistory == ActiveHistory(exercise, h)
      sessionCount == countSessions(activeHistory)
      daysSinceLastSession == getDaysSinceLastSession(activeHistory)
  IN  IF Len(activeHistory) = 0
      THEN BenchmarkModeResult(exercise)
      ELSE IF sessionCount = 1
      THEN PostBenchmarkResult(exercise, activeHistory, userAge, phaseConfig, exerciseConfig)
      ELSE IF daysSinceLastSession.tag # "null" /\ daysSinceLastSession.val > 14
      THEN ReturnFromBreakResult(exercise, activeHistory, userAge, phaseConfig,
                                 exerciseConfig, daysSinceLastSession.val)
      ELSE NormalPathResult(exercise, activeHistory, sessionCount, userAge, phaseConfig,
                            exerciseConfig)

\* generateRecommendation({exercise, history, userAge, phase})
generateRecommendation(exercise, h, userAge, phase) ==
  LET phaseConfig == getPhaseConfig(phase)
      exerciseConfig == getExerciseConfig(exercise)
      activeHistory == ActiveHistory(exercise, h)
      sessionCount == countSessions(activeHistory)
      daysSinceLastSession == getDaysSinceLastSession(activeHistory)
  IN  IF Len(activeHistory) = 0
      THEN BenchmarkModeResult(exercise)
      ELSE IF daysSinceLastSession.tag # "null" /\ daysSinceLastSession.val > 14
      THEN ReturnFromBreakResult(exercise, activeHistory, userAge, phaseConfig,
                                 exerciseConfig, daysSinceLastSession.val)
      ELSE IF sessionCount = 1
      THEN PostBenchmarkResult(exercise, activeHistory, userAge, phaseConfig, exerciseConfig)
      ELSE NormalPathResult(exercise, activeHistory, sessionCount, userAge, phaseConfig,
                            exerciseConfig)

----------------------------------------------------------------------------
(* The legacy adapter.  Its argument is null, undefined or a recommendation *)
(* object: [tag |-> "null" | "undefined" | "object", val |-> ...].           *)

NoRecommendation(tag) == [tag |-> tag, val |-> <<>>]
SomeRecommendation(r) == [tag |-> "object", val |-> r]

\* recommendation.flags?.includes(f): undefined (falsy) when flags is null
FlagsInclude(flags, f) == flags.tag = "array" /\ \E i \in DOMAIN flags.val : flags.val[i] = f

\* a number that arithmetic could not produce
NaN == [tag |-> "nan", val |-> <<>>]

\* targetReps: the specific target if truthy, else the bottom of a range string
\* matching /(\d+)-(\d+)/ (8 when the string does not match), else reps itself
LegacyTargetReps(prescription) ==
  IF Truthy(prescription.target_reps) THEN prescription.target_reps
  ELSE IF prescription.reps.tag = "str"
       THEN IF Len(prescription.reps.val) >= 2 THEN RNum(RInt(prescription.reps.val[1]))
            ELSE RNum(RInt(8))
       ELSE prescription.reps

\* targetReps * sets: NaN when sets is a range string such as '3-5'
LegacyTotalReps(targetReps, sets) ==
  LET Numeric(x) == x.tag \in {"num", "null"}       \* null counts as 0
      Value(x) == IF x.tag = "num" THEN x.val ELSE RZero
  IN  IF Numeric(targetReps) /\ Numeric(sets)
      THEN RNum(RMul(Value(targetReps), Value(sets)))
      ELSE NaN

\* Mutant: the status map is consulted first, the flag only for unmapped statuses.
LegacyStatus_MapFirst(r) ==
  CASE r.training_status = "progressing" -> "progress"
    [] r.training_status = "plateau" -> "maintain"
    [] r.training_status = "regressing" -> "deload"
    [] r.training_status = "insufficient_data" -> "maintain"
    [] OTHER -> IF FlagsInclude(r.flags, "recovery_week_recommended") THEN "deload"
                ELSE "maintain"

\* flags?.includes('recovery_week_recommended') ? 'deload'
\*   : statusMap[training_status] || 'maintain'
LegacyStatus(r) ==
  IF FlagsInclude(r.flags, "recovery_week_recommended") THEN "deload"
  ELSE CASE r.training_status = "progressing" -> "progress"
         [] r.training_status = "plateau" -> "maintain"
         [] r.training_status = "regressing" -> "deload"
         [] r.training_status = "insufficient_data" -> "maintain"
         [] OTHER -> "maintain"

LegacyNull == [tag |-> "null", val |-> <<>>]

toLegacyFormat(recommendation) ==
  IF recommendation.tag # "object" THEN LegacyNull
  ELSE LET r == recommendation.val
           targetReps == LegacyTargetReps(r.prescription)
       IN  [tag |-> "object",
            val |-> [exerciseName |-> r.exercise,
                     currentPerformance |->
                       [weight |-> r.prescription.weight_kg, reps |-> targetReps,
                        sets |-> r.prescription.sets,
                        totalReps |-> LegacyTotalReps(targetReps, r.prescription.sets)],
                     nextWorkout |->
                       [weight |-> r.prescription.weight_kg, targetReps |-> targetReps,
                        sets |-> r.prescription.sets],
                     status |-> LegacyStatus(r),
                     message |-> r.progression_rationale,
                     plateauDetected |-> FlagsInclude(r.flags, "plateau_strategy_applied"),
                     deloadRecommended |->
                       FlagsInclude(r.flags, "recovery_week_recommended"),
                     intensity_percent |-> r.intensity_percent,
                     calculated_e1rm_kg |-> r.calculated_e1rm_kg,
                     training_status |-> r.training_status,
                     flags |-> r.flags,
                     prescription |-> r.prescription,
                     reasoning_breakdown |-> r.reasoning_breakdown]]

----------------------------------------------------------------------------
(* The caller: a tracker that logs sets, soft-excludes entries, lets time   *)
(* pass, picks a request and asks the engine for a recommendation.          *)

\* Inputs the model draws from.  The sets logged: a plain set, a heavier one
\* whose weight is no multiple of 1.25 kg, and a high-rep set of another exercise.
EntriesLogged ==
  { [name |-> "Squat", weight |-> RInt(100), reps |-> 8, rir |-> Undefined],
    [name |-> "Squat", weight |-> RInt(111), reps |-> 8, rir |-> Undefined],
    [name |-> "Front Squat", weight |-> RInt(80), reps |-> 16, rir |-> Num(0)] }
\* The requests made: the two exercises, a lifter below and one above 60, the two
\* known phases and a phase name the engine does not know.
RequestsAsked ==
  { [exercise |-> "Squat", userAge |-> 30, phase |-> "hypertrophy"],
    [exercise |-> "Squat", userAge |-> 65, phase |-> "hypertrophy"],
    [exercise |-> "Squat", userAge |-> 30, phase |-> "strength"],
    [exercise |-> "Squat", userAge |-> 65, phase |-> "cardio"],
    [exercise |-> "Front Squat", userAge |-> 30, phase |-> "hypertrophy"] }
ClockSteps == {14}

Today == now \div TicksPerDay

Inactive(h) == {i \in DOMAIN h : h[i].isActive = FALSE}

Init ==
  /\ history = <<>>
  /\ now \in 0..(TicksPerDay - 1)
  /\ req = [exercise |-> "Squat", userAge |-> 30, phase |-> "hypertrophy"]
  /\ rec = <<>>
  /\ call = <<>>
  /\ PHASE_CONFIG = PhaseTable
  /\ EXERCISE_CONFIG = ExerciseTable

\* The caller logs one set of an exercise, dated today.
LogEntry(e) ==
  /\ Len(history) < MaxHist
  /\ history' = Append(history, [name |-> e.name, date |-> Today, weight |-> e.weight,
                                 reps |-> e.reps, rir |-> e.rir, isActive |-> TRUE])
  /\ rec' = <<>>
  /\ UNCHANGED <<now, req, call, PHASE_CONFIG, EXERCISE_CONFIG>>

\* The caller soft-excludes an entry, or includes it again.
ToggleActive(i) ==
  /\ i \in DOMAIN history
  /\ history' = [history EXCEPT ![i].isActive = ~@]
  /\ Cardinality(Inactive(history')) <= MaxInactive
  /\ rec' = <<>>
  /\ UNCHANGED <<now, req, call, PHASE_CONFIG, EXERCISE_CONFIG>>

\* Time passes.
AdvanceClock(days) ==
  /\ Today + days <= MaxDay
  /\ now' = now + days * TicksPerDay
  /\ rec' = <<>>
  /\ UNCHANGED <<history, req, call, PHASE_CONFIG, EXERCISE_CONFIG>>

\* The caller sets up another request.
SetRequest(r) ==
  /\ r # req
  /\ req' = r
  /\ rec' = <<>>
  /\ UNCHANGED <<history, now, call, PHASE_CONFIG, EXERCISE_CONFIG>>

\* Mutant: the newest-first sort runs on the caller's array, before the filter.
CallerArrayAfterCall_SortedInPlace(exercise, h) == SortDateDesc(h)

\* What a call leaves in the caller's history array.  The only in-place operation
\* on a history array is Array.prototype.sort, and every sort of the engine acts on
\* a fresh array: on the result of history.filter(...) in generateRecommendation,
\* on [...activeEntries] in detectPlateau and on [...recentHistory].filter(...) in
\* determineTrainingStatus.  The entries themselves are only read.
CallerArrayAfterCall(exercise, h) == h

\* The caller calls generateRecommendation(req) on the current history.
Generate ==
  /\ rec' = <<generateRecommendation(req.exercise, history, req.userAge, req.phase)>>
  /\ history' = CallerArrayAfterCall(req.exercise, history)
  /\ UNCHANGED <<now, req, call, PHASE_CONFIG, EXERCISE_CONFIG>>

Next ==
  \/ \E e \in EntriesLogged : LogEntry(e)
  \/ \E i \in 1..MaxHist : ToggleActive(i)
  \/ \E d \in ClockSteps : AdvanceClock(d)
  \/ \E r \in RequestsAsked : SetRequest(r)
  \/ Generate

Spec == Init /\ [][Next]_vars

----------------------------------------------------------------------------
(* Direct calls of the exported pure functions, on inputs drawn from        *)
(* bounded sets.                                                            *)

WeightsTried == {Rat(-10, 1), RZero, Rat(1, 4), RInt(50), Rat(165, 2), RInt(100)}
RepsTried == {-1, 0, 1, 5, 8, 12, 20}
RirTried == {Undefined, Null, Num(-1), Num(0), Num(2), Num(5), Num(30)}
BaseSetsTried == 0..8
AgesTried == {18, 30, 31, 40, 41, 50, 51, 60, 61, 90}
E1RMsTried == {RZero, Rat(975, 10), RInt(100), RInt(102), Rat(1025, 10), RInt(105)}
SessionCountsTried == {0, 1, 2, 5}
HistoriesTried ==
  { <<>>,
    << [name |-> "Squat", date |-> 1, weight |-> RInt(80), reps |-> 8,
        rir |-> Num(2), isActive |-> TRUE],
       [name |-> "Squat", date |-> 4, weight |-> Rat(165, 2), reps |-> 8,
        rir |-> Num(2), isActive |-> TRUE] >>,
    << [name |-> "Squat", date |-> 1, weight |-> RInt(80), reps |-> 8,
        rir |-> Num(2), isActive |-> TRUE],
       [name |-> "Squat", date |-> 4, weight |-> RInt(80), reps |-> 8,
        rir |-> Num(2), isActive |-> TRUE] >>,
    \* three sessions, the last of them with three sets
    << [name |-> "Squat", date |-> 1, weight |-> RInt(100), reps |-> 8,
        rir |-> Num(2), isActive |-> TRUE],
       [name |-> "Squat", date |-> 2, weight |-> RInt(80), reps |-> 8,
        rir |-> Num(2), isActive |-> TRUE],
       [name |-> "Squat", date |-> 4, weight |-> RInt(80), reps |-> 8,
        rir |-> Num(2), isActive |-> TRUE],
       [name |-> "Squat", date |-> 4, weight |-> RInt(80), reps |-> 8,
        rir |-> Num(2), isActive |-> TRUE],
       [name |-> "Squat", date |-> 4, weight |-> RInt(80), reps |-> 8,
        rir |-> Num(2), isActive |-> TRUE] >>,
    \* two entries, one of them switched off
    << [name |-> "Squat", date |-> 1, weight |-> RInt(80), reps |-> 8,
        rir |-> Num(2), isActive |-> FALSE],
       [name |-> "Squat", date |-> 4, weight |-> Rat(165, 2), reps |-> 8,
        rir |-> Num(2), isActive |-> TRUE] >> }

\* a set of the catalogue of histories handed to detectPlateau
SetOn(date, weight, reps, active) == [name |-> "Squat", date |-> date, weight |-> weight, reps |-> reps, rir |-> Num(2), isActive |-> active]

\* Histories handed to detectPlateau: none; two sessions; three and four sessions
\* that are level, uneven, partly switched off or without a countable set.
PlateauHistoriesTried ==
  { <<>>,
    << SetOn(1, RInt(100), 8, TRUE), SetOn(1, RInt(100), 8, TRUE), SetOn(3, RInt(100), 8, TRUE) >>,
    << SetOn(1, RInt(100), 8, TRUE), SetOn(3, RInt(100), 8, TRUE), SetOn(5, RInt(100), 8, TRUE) >>,
    << SetOn(1, RInt(100), 8, TRUE), SetOn(3, RInt(100), 8, TRUE), SetOn(5, RInt(101), 8, TRUE) >>,
    << SetOn(1, RInt(100), 8, TRUE), SetOn(3, RInt(100), 8, TRUE), SetOn(5, RInt(105), 8, TRUE) >>,
    << SetOn(5, RInt(100), 8, TRUE), SetOn(5, RInt(70), 8, TRUE), SetOn(1, RInt(100), 8, TRUE),
       SetOn(3, RInt(80), 8, TRUE), SetOn(3, RInt(100), 8, TRUE) >>,
    << SetOn(1, RInt(60), 8, TRUE), SetOn(3, RInt(100), 8, TRUE), SetOn(5, RInt(100), 8, TRUE),
       SetOn(7, RInt(100), 8, TRUE) >>,
    << SetOn(1, RInt(100), 8, TRUE), SetOn(3, RInt(60), 8, TRUE), SetOn(5, RInt(100), 8, TRUE),
       SetOn(7, RInt(100), 8, TRUE) >>,
    << SetOn(1, RInt(100), 8, TRUE), SetOn(3, RInt(100), 8, FALSE), SetOn(5, RInt(100), 8, TRUE) >>,
    << SetOn(1, RInt(100), 8, TRUE), SetOn(3, RInt(60), 8, FALSE), SetOn(3, RInt(100), 8, TRUE),
       SetOn(5, RInt(100), 8, TRUE) >>,
    << SetOn(1, RInt(100), 8, TRUE), SetOn(3, RZero, 8, TRUE), SetOn(5, RInt(100), 8, TRUE) >>,
    << SetOn(1, RZero, 8, TRUE), SetOn(3, RInt(100), 0, TRUE), SetOn(5, RZero, 0, TRUE) >> }

\* Recommendations handed to the adapter: none, and objects of every status with
\* every kind of flags and the prescription shapes the engine produces.
StatusesTried ==
  {"progressing", "plateau", "regressing", "insufficient_data", "benchmark_mode",
   "progressive"}
FlagsTried ==
  {NoFlags, FlagArray(<<"recovery_week_recommended">>),
   FlagArray(<<"plateau_strategy_applied">>),
   FlagArray(<<"high_rep_data_detected_e1rm_estimated", "recovery_week_recommended">>)}
PrescriptionsTried ==
  { BenchmarkModeResult("Squat").prescription,
    [BenchmarkModeResult("Squat").prescription EXCEPT
       !.sets = RNum(RInt(4)), !.reps = RStr(<<8, 12>>), !.weight_kg = RNum(RInt(100))],
    [BenchmarkModeResult("Squat").prescription EXCEPT
       !.sets = RNum(RInt(2)), !.reps = RStr(<<8, 12>>), !.target_reps = RNum(RInt(9)),
       !.weight_kg = RNum(RInt(75))] }
RecommendationsTried ==
  {NoRecommendation("null"), NoRecommendation("undefined")} \cup
  { SomeRecommendation([BenchmarkModeResult("Squat") EXCEPT
                          !.training_status = st, !.flags = f, !.prescription = p]) :
      st \in StatusesTried, f \in FlagsTried, p \in PrescriptionsTried }

CallE1RM(weight, reps, rir) ==
  /\ call' = <<[fn |-> "calculateE1RM",
                args |-> [weight |-> weight, reps |-> reps, rir |-> rir],
                out |-> calculateE1RM(weight, reps, rir)]>>
  /\ UNCHANGED <<history, now, req, rec, PHASE_CONFIG, EXERCISE_CONFIG>>

CallAdjustedSets(baseSets, age) ==
  /\ call' = <<[fn |-> "getAdjustedSets",
                args |-> [baseSets |-> baseSets, age |-> age],
                out |-> getAdjustedSets(baseSets, age)]>>
  /\ UNCHANGED <<history, now, req, rec, PHASE_CONFIG, EXERCISE_CONFIG>>

CallStatus(currentE1RM, previousE1RM, sessionCount, recentHistory) ==
  /\ call' = <<[fn |-> "determineTrainingStatus",
                args |-> [currentE1RM |-> currentE1RM, previousE1RM |-> previousE1RM,
                          sessionCount |-> sessionCount, recentHistory |-> recentHistory],
                out |-> determineTrainingStatus(currentE1RM, previousE1RM, sessionCount,
                                                recentHistory)]>>
  /\ UNCHANGED <<history, now, req, rec, PHASE_CONFIG, EXERCISE_CONFIG>>

CallPlateau(h) ==
  /\ call' = <<[fn |-> "detectPlateau", args |-> [history |-> h], out |-> detectPlateau(h)]>>
  /\ UNCHANGED <<history, now, req, rec, PHASE_CONFIG, EXERCISE_CONFIG>>

CallAgeMultiplier(age) ==
  /\ call' = <<[fn |-> "getAgeMultiplier", args |-> [age |-> age],
                out |-> getAgeMultiplier(age)]>>
  /\ UNCHANGED <<history, now, req, rec, PHASE_CONFIG, EXERCISE_CONFIG>>

CallLegacy(recommendation) ==
  /\ call' = <<[fn |-> "toLegacyFormat", args |-> [recommendation |-> recommendation],
                out |-> toLegacyFormat(recommendation)]>>
  /\ UNCHANGED <<history, now, req, rec, PHASE_CONFIG, EXERCISE_CONFIG>>

NextFn ==
  \/ \E r \in RecommendationsTried : CallLegacy(r)
  \/ \E w \in WeightsTried, r \in RepsTried, m \in RirTried : CallE1RM(w, r, m)
  \/ \E a \in AgesTried : CallAgeMultiplier(a)
  \/ \E h \in PlateauHistoriesTried : CallPlateau(h)
  \/ \E b \in BaseSetsTried, a \in AgesTried : CallAdjustedSets(b, a)
  \/ \E c \in E1RMsTried, p \in E1RMsTried, n \in SessionCountsTried,
        h \in HistoriesTried : CallStatus(c, p, n, h)

InitFn ==
  /\ history = <<>>
  /\ now = 0
  /\ req = [exercise |-> "Squat", userAge |-> 30, phase |-> "hypertrophy"]
  /\ rec = <<>>
  /\ call = <<>>
  /\ PHASE_CONFIG = PhaseTable
  /\ EXERCISE_CONFIG = ExerciseTable

SpecFn == InitFn /\ [][NextFn]_vars

----------------------------------------------------------------------------
(* Direct calls of generateRecommendation on histories written down whole,  *)
(* as the engine's tests make them: each set is given with its age in days  *)
(* at the time of the call.                                                 *)

CallDay == 60         \* the calendar day on which the calls are made

SetLogged(name, daysAgo, weight, reps, rir) == [name |-> name, daysAgo |-> daysAgo, weight |-> weight, reps |-> reps, rir |-> rir]

HistoriesAsked ==
  { <<>>,
    \* one recent session without an analyzable set
    << SetLogged("Squat", 3, RZero, 8, Undefined),
       SetLogged("Squat", 3, RInt(100), 0, Undefined) >>,
    \* one recent session of three sets, the first two with the same estimate
    << SetLogged("Front Squat", 1, RInt(90), 5, Num(1)),
       SetLogged("Front Squat", 1, RInt(90), 4, Num(2)),
       SetLogged("Front Squat", 1, RInt(60), 8, Num(2)) >>,
    \* breaks of 20 and of 30 days
    << SetLogged("Lunge", 20, RInt(60), 8, Num(2)) >>,
    << SetLogged("Lunge", 30, RInt(60), 8, Num(2)) >>,
    << SetLogged("Squat", 35, RInt(100), 8, Num(2)),
       SetLogged("Squat", 20, RInt(100), 8, Num(2)) >>,
    \* the same strength now as five weeks ago
    << SetLogged("Front Squat", 35, RInt(80), 8, Num(2)),
       SetLogged("Front Squat", 2, RInt(80), 8, Num(2)) >>,
    << SetLogged("Squat", 35, RInt(100), 8, Num(2)),
       SetLogged("Squat", 2, RInt(100), 8, Num(2)) >>,
    \* 5% and 20% weaker than five weeks ago
    << SetLogged("Squat", 35, RInt(100), 8, Num(2)),
       SetLogged("Squat", 2, RInt(95), 8, Num(2)) >>,
    << SetLogged("Squat", 35, RInt(100), 8, Num(2)),
       SetLogged("Squat", 2, RInt(80), 8, Num(2)) >>,
    \* 20% weaker, the last set a high-rep set
    << SetLogged("Squat", 35, RInt(100), 8, Num(2)),
       SetLogged("Squat", 2, RInt(50), 16, Num(0)) >>,
    \* two sessions in nine days, the second one stronger: its set reaches 12
    \* reps with little, with much and with no effort margin logged, or 9 reps
    << SetLogged("Squat", 9, RInt(100), 10, Num(2)),
       SetLogged("Squat", 2, RInt(105), 12, Num(2)) >>,
    << SetLogged("Squat", 9, RInt(100), 10, Num(2)),
       SetLogged("Squat", 2, RInt(105), 12, Num(4)) >>,
    << SetLogged("Squat", 9, RInt(100), 10, Num(2)),
       SetLogged("Squat", 2, RInt(111), 12, Undefined) >>,
    << SetLogged("Lunge", 9, RInt(60), 8, Num(2)),
       SetLogged("Lunge", 2, Rat(125, 2), 9, Num(2)) >>,
    \* a second session weaker than the first
    << SetLogged("Lunge", 9, RInt(60), 8, Num(2)),
       SetLogged("Lunge", 2, RInt(50), 8, Num(2)) >>,
    \* stronger than five weeks ago, the newest set logged without a weight
    << SetLogged("Squat", 35, RInt(100), 8, Num(2)),
       SetLogged("Squat", 3, RInt(110), 8, Num(2)),
       SetLogged("Squat", 2, RZero, 8, Num(2)) >>,
    \* two sets in the latest session, logged in either order
    << SetLogged("Squat", 35, RInt(100), 8, Num(2)),
       SetLogged("Squat", 2, RInt(105), 12, Num(2)),
       SetLogged("Squat", 2, RInt(105), 8, Num(3)) >>,
    << SetLogged("Squat", 35, RInt(100), 8, Num(2)),
       SetLogged("Squat", 2, RInt(105), 8, Num(3)),
       SetLogged("Squat", 2, RInt(105), 12, Num(2)) >> }

RequestsMade ==
  { [exercise |-> x, userAge |-> 30, phase |-> p] :
      x \in {"Squat", "Front Squat", "Lunge"}, p \in {"hypertrophy", "strength"} }
  \cup {[exercise |-> "Squat", userAge |-> 65, phase |-> "cardio"]}

\* the WorkoutEntry array of a written-down history, on the day of the call
HistoryOn(today, sets) == [i \in DOMAIN sets |-> [name |-> sets[i].name, date |-> today - sets[i].daysAgo, weight |-> sets[i].weight, reps |-> sets[i].reps, rir |-> sets[i].rir, isActive |-> TRUE]]

InitRec ==
  /\ history = <<>>
  /\ now \in (CallDay * TicksPerDay)..(CallDay * TicksPerDay + TicksPerDay - 1)
  /\ req = [exercise |-> "Squat", userAge |-> 30, phase |-> "hypertrophy"]
  /\ rec = <<>>
  /\ call = <<>>
  /\ PHASE_CONFIG = PhaseTable
  /\ EXERCISE_CONFIG = ExerciseTable

\* generateRecommendation({exercise, history, userAge, phase}) on a history given whole
Ask(sets, r) ==
  LET h == HistoryOn(Today, sets)
  IN  /\ req' = r
      /\ rec' = <<generateRecommendation(r.exercise, h, r.userAge, r.phase)>>
      /\ history' = CallerArrayAfterCall(r.exercise, h)
      /\ UNCHANGED <<now, call, PHASE_CONFIG, EXERCISE_CONFIG>>

NextRec == \E sets \in HistoriesAsked, r \in RequestsMade : Ask(sets, r)

SpecRec == InitRec /\ [][NextRec]_vars

----------------------------------------------------------------------------
(* A lifter on a plateau: three level sessions are on record, and the       *)
(* lifter keeps logging sessions at the same weight and reps and asks for a *)
(* recommendation after each of them.                                       *)

MaxLogged == 8        \* entries in the history
MaxTrainDay == 6      \* the last calendar day of the training log
MaxSessionSets == 4   \* sets logged at once

LiftsTrained == {"Squat", "Overhead Press"}
PhasesTrained == {"hypertrophy", "strength"}
WorkingWeight(exercise) == IF exercise = "Squat" THEN RInt(100) ELSE RInt(40)

\* an entry as logAllSets writes it: no rir, and isActive left to its default
WorkingSet(exercise, date) == [name |-> exercise, date |-> date, weight |-> WorkingWeight(exercise), reps |-> 8, rir |-> Undefined, isActive |-> TRUE]

InitTrain ==
  /\ req \in {[exercise |-> x, userAge |-> 30, phase |-> p] : x \in LiftsTrained, p \in PhasesTrained}
  /\ history = <<WorkingSet(req.exercise, 0), WorkingSet(req.exercise, 2), WorkingSet(req.exercise, 4)>>
  /\ now = 4 * TicksPerDay
  /\ rec = <<>>
  /\ call = <<>>
  /\ PHASE_CONFIG = PhaseTable
  /\ EXERCISE_CONFIG = ExerciseTable

\* logAllSets: the sets of today's session are appended at once.
LogAllSets(count) ==
  /\ Len(history) + count <= MaxLogged
  /\ history' = history \o [i \in 1..count |-> WorkingSet(req.exercise, Today)]
  /\ rec' = <<>>
  /\ UNCHANGED <<now, req, call, PHASE_CONFIG, EXERCISE_CONFIG>>

NextDay ==
  /\ Today < MaxTrainDay
  /\ now' = now + TicksPerDay
  /\ UNCHANGED <<history, req, rec, call, PHASE_CONFIG, EXERCISE_CONFIG>>

\* The recommendation is computed anew after the history has changed; the call
\* is kept on record with what it returned.
Resolve ==
  /\ rec = <<>>
  /\ rec' = <<generateRecommendation(req.exercise, history, req.userAge, req.phase)>>
  /\ call' = <<[fn |-> "generateRecommendation",
                args |-> [exercise |-> req.exercise, history |-> history,
                          userAge |-> req.userAge, phase |-> req.phase],
                out |-> rec'[1]]>>
  /\ history' = CallerArrayAfterCall(req.exercise, history)
  /\ UNCHANGED <<now, req, PHASE_CONFIG, EXERCISE_CONFIG>>

NextTrain ==
  \/ \E count \in 1..MaxSessionSets : LogAllSets(count)
  \/ NextDay
  \/ Resolve

SpecTrain == InitTrain /\ [][NextTrain]_vars

----------------------------------------------------------------------------
(* Vocabulary of the properties *)

Called == rec # <<>>
Result == rec[1]

HasFlag(r, f) == \E i \in DOMAIN r.flags.val : r.flags.val[i] = f

\* the active entries of the requested exercise, in the caller's order
MineActive == {i \in DOMAIN history :
                 history[i].name = req.exercise /\ history[i].isActive # FALSE}

\* the calendar-day gap between today and the newest active entry of the exercise
LatestDate == CHOOSE d \in {history[i].date : i \in MineActive} :
                \A i \in MineActive : history[i].date <= d
DayGap == Today - LatestDate

IsMultipleOfIncrement(w) == RDiv(w, Rat(125, 100))[2] = 1

Calls(fn) == call # <<>> /\ call[1].fn = fn

\* getAdjustedSets over the base set counts and ages tried
AdjustedSetsAtLeastTwo ==
  \A b \in BaseSetsTried, a \in AgesTried : getAdjustedSets(b, a) >= 2

----------------------------------------------------------------------------
(* C1: every non-null prescribed weight is an exact multiple of 1.25 kg, in *)
(* every branch, also for logged weights that are no multiples of 1.25.     *)
C1_WeightIsMultipleOfIncrement ==
  (Called /\ Result.prescription.weight_kg.tag = "num")
    => IsMultipleOfIncrement(Result.prescription.weight_kg.val)

(* C2, as stated: exactly one active entry of the exercise always gives     *)
(* benchmark_mode = false, a non-null weight and the flag                   *)
(* post_benchmark_first_prescription, whatever the entry's date.            *)
C2_Original ==
  (Called /\ Cardinality(MineActive) = 1)
    => /\ Result.benchmark_mode = "false"
       /\ Result.prescription.weight_kg.tag = "num"
       /\ HasFlag(Result, "post_benchmark_first_prescription")

(* C2, amended: the same, provided the entry is at most 14 days old.        *)
C2_OneRecentEntryIsPostBenchmark ==
  (Called /\ Cardinality(MineActive) = 1 /\ DayGap <= 14)
    => /\ Result.benchmark_mode = "false"
       /\ Result.prescription.weight_kg.tag = "num"
       /\ HasFlag(Result, "post_benchmark_first_prescription")

C2_Witness ==
  /\ Called
  /\ Cardinality(MineActive) = 1
  /\ DayGap = 14
  /\ Len(history) = 2
  /\ HasFlag(Result, "post_benchmark_first_prescription")

(* C3: with no active entry of the requested exercise the result is the     *)
(* benchmark template: benchmark_mode true, status benchmark_mode, sets     *)
(* '3-5', reps '5-12', weight null, flag benchmark_mode; for any age and    *)
(* phase, unknown phase names included.                                     *)
C3_NoActiveEntryIsBenchmarkMode ==
  (Called /\ MineActive = {})
    => /\ Result.benchmark_mode = "true"
       /\ Result.training_status = "benchmark_mode"
       /\ Result.prescription.sets = RStr(<<3, 5>>)
       /\ Result.prescription.reps = RStr(<<5, 12>>)
       /\ Result.prescription.weight_kg = RNull
       /\ HasFlag(Result, "benchmark_mode")

C3_Witness ==
  /\ Called
  /\ MineActive = {}
  /\ \E i \in DOMAIN history : history[i].name = req.exercise /\ history[i].isActive = FALSE
  /\ \E i \in DOMAIN history : history[i].name # req.exercise /\ history[i].isActive
  /\ req.phase \notin DOMAIN PHASE_CONFIG
  /\ Result.benchmark_mode = "true"

(* C4: when the newest active entry of the exercise is more than 14 days    *)
(* old, the flags contain returning_from_break and the rationale carries    *)
(* the number of days since that entry, however many sessions there are.    *)
C4_LongBreakIsFlagged ==
  (Called /\ MineActive # {} /\ DayGap > 14)
    => /\ HasFlag(Result, "returning_from_break")
       /\ Result.progression_rationale.kind = "days_since_last_session"
       /\ Result.progression_rationale.args[1] = DayGap

C4_Witness ==
  /\ Called
  /\ Cardinality({history[i].date : i \in MineActive}) = 2
  /\ DayGap > 14
  /\ HasFlag(Result, "returning_from_break")
  /\ Result.progression_rationale.args[1] = DayGap

(* C5: every set count is at least 2: getAdjustedSets(base, age) >= 2 for   *)
(* every base set count and age, and every numeric prescription.sets of a   *)
(* result (normal path, long break, post-benchmark, halved deload) is >= 2. *)
C5_SetsAtLeastTwo ==
  /\ AdjustedSetsAtLeastTwo
  /\ (Called /\ Result.prescription.sets.tag = "num")
       => RGe(Result.prescription.sets.val, RInt(2))

C5_Witness ==
  /\ Called
  /\ Result.training_status = "regressing"
  /\ HasFlag(Result, "recovery_week_recommended")
  /\ Result.prescription.sets = RNum(RInt(2))
  /\ req.userAge > 60

C8_EstimateIsZeroOrPositive ==
  Calls("calculateE1RM") =>
    LET a == call[1].args
    IN  /\ (RLe(a.weight, RZero) \/ a.reps <= 0) => call[1].out = RZero
        /\ (RGt(a.weight, RZero) /\ a.reps > 0 /\ (a.rir.tag = "num" => a.rir.val >= 0))
             => RGe(call[1].out, RZero)

C8_Witness ==
  /\ Calls("calculateE1RM")
  /\ RLt(call[1].args.weight, RZero)
  /\ call[1].args.reps > 0
  /\ call[1].out = RZero

(* C9: for weight > 0 and reps > 0, calculateE1RM is weight * 36 / (37 - e) *)
(* rounded to one decimal, e = min(reps + m, 12), m the logged margin or 2  *)
(* when the margin is absent or null.                                       *)
C9_EstimateFormula ==
  (Calls("calculateE1RM") /\ RGt(call[1].args.weight, RZero) /\ call[1].args.reps > 0)
    => LET a == call[1].args
           m == IF a.rir.tag = "num" THEN a.rir.val ELSE 2
           e == IF a.reps + m < 12 THEN a.reps + m ELSE 12
       IN  /\ e <= 12
           /\ 37 - e >= 25
           /\ call[1].out = Rat(MathRound(Rat(a.weight[1] * 360, a.weight[2] * (37 - e))), 10)

(* C10: determineTrainingStatus returns insufficient_data whenever          *)
(* sessionCount < 2, whatever the other arguments.                          *)
C10_FewSessionsIsInsufficientData ==
  (Calls("determineTrainingStatus") /\ call[1].args.sessionCount < 2)
    => call[1].out = "insufficient_data"

C10_Witness ==
  /\ Calls("determineTrainingStatus")
  /\ call[1].args.sessionCount = 1
  /\ RGt(call[1].args.previousE1RM, RZero)
  /\ RGt(call[1].args.currentE1RM, RMul(call[1].args.previousE1RM, Rat(104, 100)))
  /\ Len(call[1].args.recentHistory) = 2
  /\ call[1].out = "insufficient_data"

(* C11: for sessionCount >= 2 and previousE1RM > 0 the status depends only  *)
(* on the change from previous to current, whatever recentHistory holds:    *)
(* progressing iff current >= previous * 1.025, regressing iff current <=   *)
(* previous * 0.975 (both boundaries inclusive), plateau otherwise.         *)
C11_LongTermTrendDecides ==
  (Calls("determineTrainingStatus") /\ call[1].args.sessionCount >= 2
     /\ RGt(call[1].args.previousE1RM, RZero))
    => LET c == call[1].args.currentE1RM
           p == call[1].args.previousE1RM
           up == RGe(RMul(c, RInt(1000)), RMul(p, RInt(1025)))
           down == RLe(RMul(c, RInt(1000)), RMul(p, RInt(975)))
       IN  /\ (call[1].out = "progressing") <=> up
           /\ (call[1].out = "regressing") <=> down
           /\ (call[1].out = "plateau") <=> (~up /\ ~down)

\* exactly -2.5% is regressing, although the recent history alone shows progress
C11_Witness ==
  /\ Calls("determineTrainingStatus")
  /\ call[1].args.sessionCount >= 2
  /\ call[1].args.previousE1RM = RInt(100)
  /\ call[1].args.currentE1RM = Rat(975, 10)
  /\ Len(call[1].args.recentHistory) = 2
  /\ RGt(call[1].args.recentHistory[2].weight, call[1].args.recentHistory[1].weight)
  /\ call[1].out = "regressing"

(* C12: for every base set count getAdjustedSets is non-increasing in age   *)
(* (no older lifter gets more sets than a younger one) and never below 2,   *)
(* and getAgeMultiplier is 1.0 up to 30, 0.95 for 31-40, 0.85 for 41-50,    *)
(* 0.75 for 51-60 and 0.65 above 60.                                        *)
C12_SetsNonIncreasingInAge ==
  /\ Calls("getAdjustedSets") =>
       /\ call[1].out >= 2
       /\ \A older \in AgesTried :
            call[1].args.age <= older
              => call[1].out >= getAdjustedSets(call[1].args.baseSets, older)
  /\ Calls("getAgeMultiplier") =>
       LET age == call[1].args.age
           hundredths == RMul(call[1].out, RInt(100))
       IN  hundredths = RInt(CASE age \in 0..30 -> 100
                               [] age \in 31..40 -> 95
                               [] age \in 41..50 -> 85
                               [] age \in 51..60 -> 75
                               [] OTHER -> 65)

\* a lifter of 41 is given 3 sets where a lifter of 61 or more would get 2
C12_Witness ==
  /\ Calls("getAdjustedSets")
  /\ call[1].args.age = 41
  /\ call[1].out = 3
  /\ \E older \in AgesTried : getAdjustedSets(call[1].args.baseSets, older) = 2

(* C13: toLegacyFormat returns null only for a null or absent input;        *)
(* otherwise the legacy status is deload whenever the flags contain         *)
(* recovery_week_recommended, whatever the training status, and else        *)
(* progress for progressing, deload for regressing and maintain for every   *)
(* other status; deloadRecommended is true exactly when that flag is there. *)
C13_LegacyStatusMapping ==
  Calls("toLegacyFormat") =>
    LET given == call[1].args.recommendation
        out == call[1].out
        recovery == HasFlag(given.val, "recovery_week_recommended")
        status == given.val.training_status
    IN  /\ (out.tag = "null") <=> (given.tag \in {"null", "undefined"})
        /\ given.tag = "object" =>
             /\ out.val.deloadRecommended <=> recovery
             /\ recovery => out.val.status = "deload"
             /\ (~recovery /\ status = "progressing") => out.val.status = "progress"
             /\ (~recovery /\ status = "regressing") => out.val.status = "deload"
             /\ (~recovery /\ status \notin {"progressing", "regressing"})
                  => out.val.status = "maintain"

\* a progressing recommendation that carries the recovery flag is a deload
C13_Witness ==
  /\ Calls("toLegacyFormat")
  /\ call[1].args.recommendation.tag = "object"
  /\ call[1].args.recommendation.val.training_status = "progressing"
  /\ HasFlag(call[1].args.recommendation.val, "recovery_week_recommended")
  /\ call[1].out.val.status = "deload"
  /\ call[1].out.val.deloadRecommended

\* the active entries of the requested exercise all share one session date
OneSessionDate == Cardinality({history[i].date : i \in MineActive}) = 1

\* the set logged in an entry has a non-positive weight or a non-positive rep count
Unanalyzable(e) == RLe(e.weight, RZero) \/ e.reps <= 0

(* C14: when the active history is one session date, not a long break, and  *)
(* no set of that session is analyzable (each has non-positive weight or    *)
(* reps), the result is the degraded one: flag benchmark_analysis_failed,   *)
(* weight null, status insufficient_data, and no flag                       *)
(* post_benchmark_first_prescription.                                       *)
C14_UnanalyzableSessionIsDegraded ==
  (Called /\ OneSessionDate /\ DayGap <= 14
     /\ \A i \in MineActive : Unanalyzable(history[i]))
    => /\ HasFlag(Result, "benchmark_analysis_failed")
       /\ ~HasFlag(Result, "post_benchmark_first_prescription")
       /\ Result.prescription.weight_kg = RNull
       /\ Result.training_status = "insufficient_data"

(* C15: the long-break guard runs before the single-session guard: when the *)
(* active entries all share one session date more than 14 days old, the     *)
(* result is the break route's (flag returning_from_break, status           *)
(* insufficient_data) and carries neither post_benchmark_first_prescription *)
(* nor status progressive; the single-session route is taken only when the  *)
(* one session is at most 14 days old.                                      *)
C15_BreakGuardBeforeSingleSession ==
  Called =>
    /\ (OneSessionDate /\ DayGap > 14)
         => /\ HasFlag(Result, "returning_from_break")
            /\ Result.training_status = "insufficient_data"
            /\ ~HasFlag(Result, "post_benchmark_first_prescription")
            /\ Result.training_status # "progressive"
    /\ (HasFlag(Result, "post_benchmark_first_prescription")
          \/ Result.training_status = "progressive")
         => (OneSessionDate /\ DayGap <= 14)

\* one old session of two sets takes the break route
C15_Witness ==
  /\ Called
  /\ Cardinality(MineActive) = 2
  /\ OneSessionDate
  /\ DayGap > 14
  /\ HasFlag(Result, "returning_from_break")
  /\ Result.training_status = "insufficient_data"

\* the guards whose flags a result carries
GuardsFlagged(r) ==
  {g \in {"benchmark", "break", "single_session", "strength_loss", "high_rep"} :
     CASE g = "benchmark" -> HasFlag(r, "benchmark_mode")
       [] g = "break" -> HasFlag(r, "returning_from_break")
       [] g = "single_session" -> HasFlag(r, "post_benchmark_first_prescription")
                                    \/ HasFlag(r, "benchmark_analysis_failed")
       [] g = "strength_loss" -> HasFlag(r, "significant_strength_loss_detected")
       [] g = "high_rep" -> HasFlag(r, "high_rep_data_detected_e1rm_estimated")}

(* C16, as stated: no result carries the identifying flags of two different *)
(* edge-case guards (benchmark_mode, returning_from_break,                  *)
(* post_benchmark_first_prescription or benchmark_analysis_failed,          *)
(* significant_strength_loss_detected, high_rep_data_detected_e1rm_estimated). *)
C16_Original ==
  Called => Cardinality(GuardsFlagged(Result)) <= 1

(* C16, amended: the first three guards return at once, so a result with    *)
(* the flag of one of them carries the flag of no other guard; the flags of *)
(* the last two guards, which do not return, may appear together.           *)
C16_RoutingGuardsAreExclusive ==
  Called =>
    \/ Cardinality(GuardsFlagged(Result)) <= 1
    \/ GuardsFlagged(Result) = {"strength_loss", "high_rep"}

\* a break, a single session and a benchmark have each been answered with their
\* own flag only; here: a single session
C16_Witness ==
  /\ Called
  /\ GuardsFlagged(Result) = {"single_session"}
  /\ Len(history) = 3


\* the best estimate among the active sets of recentHistory logged on date d
SessionEstimate(recentHistory, d) ==
  RMaxSeq(MapE1RM(SelectSeq(recentHistory, LAMBDA e : IsActive(e) /\ e.date = d)))

\* the dates of the last three sessions (distinct dates of active sets)
LastThreeSessions(recentHistory) ==
  LET dates == {recentHistory[i].date : i \in {j \in DOMAIN recentHistory : IsActive(recentHistory[j])}}
  IN  {d \in dates : Cardinality({x \in dates : x > d}) < 3}

(* C17: for sessionCount >= 2 and previousE1RM <= 0, with at least 2 active *)
(* entries in recentHistory determineTrainingStatus compares the estimate   *)
(* of the earliest against the latest of the last 3 sessions (distinct      *)
(* dates; several sets of one date are one session): progressing iff latest *)
(* > earliest * 1.01, regressing iff latest < earliest * 0.98, plateau      *)
(* otherwise; with fewer than 2 active entries it is insufficient_data.     *)
C17_ShortTermTrendBySessions ==
  (Calls("determineTrainingStatus") /\ call[1].args.sessionCount >= 2
     /\ ~RGt(call[1].args.previousE1RM, RZero))
    => LET h == call[1].args.recentHistory
           sessions == LastThreeSessions(h)
           earliest == SessionEstimate(h, CHOOSE d \in sessions : \A x \in sessions : d <= x)
           latest == SessionEstimate(h, CHOOSE d \in sessions : \A x \in sessions : d >= x)
           up == RGt(RMul(latest, RInt(100)), RMul(earliest, RInt(101)))
           down == RLt(RMul(latest, RInt(100)), RMul(earliest, RInt(98)))
       IN  IF Len(SelectSeq(h, IsActive)) < 2
           THEN call[1].out = "insufficient_data"
           ELSE /\ (call[1].out = "progressing") <=> up
                /\ (call[1].out = "regressing") <=> down
                /\ (call[1].out = "plateau") <=> (~up /\ ~down)


\* the newest active entry of the requested exercise (the first of them in the
\* caller's order when several carry the newest date)
NewestEntry ==
  history[CHOOSE i \in MineActive :
            /\ history[i].date = LatestDate
            /\ \A j \in MineActive : history[j].date = LatestDate => i <= j]

(* C18: on the returning-from-break route the working estimate is reduced   *)
(* by 10% when 14 < days since the last session <= 28 and by 15% when days  *)
(* > 28; the weight is the reduced estimate times the phase's mid           *)
(* intensity, rounded to 1.25 kg; the effort-margin target is one above the *)
(* target of the normal path for that phase and exercise (phase target plus *)
(* the exercise's adjustment); the status is insufficient_data.             *)
C18_ReturnFromBreakPrescription ==
  (Called /\ HasFlag(Result, "returning_from_break"))
    => LET phaseConfig == getPhaseConfig(req.phase)
           exerciseConfig == getExerciseConfig(req.exercise)
           modifier == IF exerciseConfig.e1rm_modifier = RZero THEN RInt(1)
                       ELSE exerciseConfig.e1rm_modifier
           working == RMul(E1RMOf(NewestEntry), modifier)
           reduction == IF DayGap > 28 THEN Rat(15, 100) ELSE Rat(10, 100)
           mid == RDiv(RAdd(phaseConfig.intensity_range[1], phaseConfig.intensity_range[2]), RInt(2))
           normalTarget == phaseConfig.rir_target + exerciseConfig.rir_adjustment
       IN  /\ DayGap > 14
           /\ Result.prescription.weight_kg =
                RNum(roundToIncrement(RMul(RMul(working, RSub(RInt(1), reduction)), mid)))
           /\ Result.prescription.rir_target = normalTarget + 1
           /\ Result.training_status = "insufficient_data"


\* the modifier-adjusted estimate of the i-th entry of the caller's history
AdjustedEstimate(i) ==
  RMul(E1RMOf(history[i]), ModifierOrOne(getExerciseConfig(req.exercise)))

\* the first of the requested exercise's active sets with the highest estimate
BestSetIndex ==
  CHOOSE i \in MineActive :
    /\ \A j \in MineActive : RGe(AdjustedEstimate(i), AdjustedEstimate(j))
    /\ \A j \in MineActive : AdjustedEstimate(j) = AdjustedEstimate(i) => i <= j

(* C19: on the single-session route the baseline is the set of that session *)
(* with the highest modifier-adjusted estimate, the first such set on ties: *)
(* benchmark_baseline.e1rm and calculated_e1rm_kg equal the maximum over    *)
(* the session's sets of calculateE1RM times the exercise's modifier, the   *)
(* weight is that baseline times the phase's mid intensity rounded to       *)
(* 1.25 kg, target_reps is floor((rep_min + rep_max) / 2) and the status is *)
(* progressive.                                                             *)
C19_SingleSessionBaseline ==
  (Called /\ HasFlag(Result, "post_benchmark_first_prescription"))
    => LET phaseConfig == getPhaseConfig(req.phase)
           baseline == AdjustedEstimate(BestSetIndex)
           best == history[BestSetIndex]
           mid == RDiv(RAdd(phaseConfig.intensity_range[1], phaseConfig.intensity_range[2]), RInt(2))
       IN  /\ Result.benchmark_baseline.tag = "object"
           /\ Result.benchmark_baseline.e1rm = baseline
           /\ Result.calculated_e1rm_kg = baseline
           /\ Result.benchmark_baseline.bestSet.weight = best.weight
           /\ Result.benchmark_baseline.bestSet.reps = best.reps
           /\ Result.benchmark_baseline.bestSet.rir = best.rir
           /\ Result.prescription.weight_kg = RNum(roundToIncrement(RMul(baseline, mid)))
           /\ Result.prescription.target_reps =
                RNum(RInt((phaseConfig.rep_min + phaseConfig.rep_max) \div 2))
           /\ Result.training_status = "progressive"

\* a session of three sets whose first two tie for the best estimate, under a
\* modifier: the first of them is the baseline
C19_Witness ==
  /\ Called
  /\ HasFlag(Result, "post_benchmark_first_prescription")
  /\ Cardinality(MineActive) = 3
  /\ AdjustedEstimate(1) = AdjustedEstimate(2)
  /\ RGt(AdjustedEstimate(1), AdjustedEstimate(3))
  /\ history[1].reps # history[2].reps
  /\ ModifierOrOne(getExerciseConfig(req.exercise)) # RInt(1)
  /\ Result.benchmark_baseline.bestSet.reps = history[1].reps


\* the best estimate among the requested exercise's active sets logged between
\* daysAgoStart and daysAgoEnd days before the call, 0 when there is none
WindowBest(daysAgoStart, daysAgoEnd) ==
  getHighestE1RMInRange(SelectSeq(history, LAMBDA e : e.name = req.exercise),
                        daysAgoStart, daysAgoEnd)

(* C20: on the normal path (at least 2 sessions, no long break) the flag    *)
(* significant_strength_loss_detected is raised iff a 28-42-day estimate    *)
(* exists (> 0) and the exercise's current estimate is more than 10% below  *)
(* it; for every exercise, those with an estimate modifier included, the    *)
(* flag is not raised when the best set of the last 14 days is at least as  *)
(* strong as the best set of the 28-42-day window.                           *)
C20_StrengthLossFlag ==
  (Called /\ GuardsFlagged(Result) \cap {"benchmark", "break", "single_session"} = {})
    => LET recent == WindowBest(0, 14)
           previous == WindowBest(28, 42)
           \* the current estimate: the best of the last 14 days, else the newest set
           current == IF RGt(recent, RZero) THEN recent ELSE E1RMOf(NewestEntry)
           flagged == HasFlag(Result, "significant_strength_loss_detected")
       IN  /\ flagged <=> (RGt(previous, RZero)
                             /\ RLt(RMul(current, RInt(10)), RMul(previous, RInt(9))))
           /\ (RGt(previous, RZero) /\ RGe(recent, previous)) => ~flagged


\* the last entry reached the top of the phase's rep range with an effort
\* margin that is unknown or at most the phase's target
ToppedOut ==
  /\ NewestEntry.reps >= getPhaseConfig(req.phase).rep_max
  /\ \/ NewestEntry.rir.tag # "num"
     \/ NewestEntry.rir.val <= getPhaseConfig(req.phase).rir_target

\* last reps + 1, capped at the phase's rep_max
NextRepTarget ==
  RNum(RInt(Min2(NewestEntry.reps + 1, getPhaseConfig(req.phase).rep_max)))

(* C21, as stated: when the status is progressing and the last entry        *)
(* reached rep_max with an effort margin unknown or at most the phase       *)
(* target, the weight is the last weight plus the exercise's load increment *)
(* and target_reps is rep_min; otherwise the weight equals the last weight  *)
(* and target_reps is min(last reps + 1, rep_max).                          *)
C21_Original ==
  (Called /\ Result.training_status = "progressing")
    => IF ToppedOut
       THEN /\ Result.prescription.weight_kg =
                 RNum(RAdd(NewestEntry.weight, getExerciseConfig(req.exercise).load_increment))
            /\ Result.prescription.target_reps = RNum(RInt(getPhaseConfig(req.phase).rep_min))
       ELSE /\ Result.prescription.weight_kg = RNum(NewestEntry.weight)
            /\ Result.prescription.target_reps = NextRepTarget

(* C21, amended: the increased weight is the last weight plus the load      *)
(* increment rounded to the nearest 1.25 kg, and the held weight equals the *)
(* last weight when that weight is positive.                                *)
C21_ProgressingDoubleProgression ==
  (Called /\ Result.training_status = "progressing")
    => IF ToppedOut
       THEN /\ Result.prescription.weight_kg =
                 RNum(roundToIncrement(RAdd(NewestEntry.weight,
                                            getExerciseConfig(req.exercise).load_increment)))
            /\ Result.prescription.target_reps = RNum(RInt(getPhaseConfig(req.phase).rep_min))
       ELSE /\ RGt(NewestEntry.weight, RZero)
                 => Result.prescription.weight_kg = RNum(NewestEntry.weight)
            /\ Result.prescription.target_reps = NextRepTarget

\* 12 reps at 4 in reserve against a target of 2: the weight is held
C21_Witness ==
  /\ Called
  /\ Result.training_status = "progressing"
  /\ NewestEntry.reps >= getPhaseConfig(req.phase).rep_max
  /\ ~ToppedOut
  /\ Result.prescription.weight_kg = RNum(NewestEntry.weight)


(* C22: detectPlateau(history) is true iff the active entries span at least *)
(* 3 distinct session dates and, over the 3 most recent of them, taking     *)
(* each session's best estimate, (best - worst) / worst < 0.02; it is false *)
(* for fewer than 3 sessions and when the worst session estimate is 0.      *)
C22_PlateauIsLevelLastThreeSessions ==
  Calls("detectPlateau")
    => LET h == call[1].args.history
           dates == {h[i].date : i \in {j \in DOMAIN h : IsActive(h[j])}}
           estimates == {SessionEstimate(h, d) : d \in LastThreeSessions(h)}
           best == CHOOSE x \in estimates : \A y \in estimates : RGe(x, y)
           worst == CHOOSE x \in estimates : \A y \in estimates : RLe(x, y)
       IN  call[1].out <=>
             /\ Cardinality(dates) >= 3
             /\ RGt(worst, RZero)
             /\ RLt(RMul(RSub(best, worst), RInt(100)), RMul(worst, RInt(2)))

\* four sessions, the oldest far weaker, the last three level: a plateau; and
\* sessions whose best sets are level although other sets are weaker
C22_Witness ==
  /\ Calls("detectPlateau")
  /\ call[1].out = TRUE
  /\ Len(call[1].args.history) = 5
  /\ \E i \in DOMAIN call[1].args.history : call[1].args.history[i].weight = RInt(70)


\* the plateau strategy a result applied, "" when it applied none
StrategyApplied(r) ==
  IF ~HasFlag(r, "plateau_strategy_applied") THEN ""
  ELSE CASE r.progression_rationale.kind = "plateau_micro_load" -> "micro_load"
         [] r.progression_rationale.kind = "plateau_add_set" -> "add_set"
         [] r.progression_rationale.kind = "plateau_extend_rep_ceiling" -> "extend_rep_ceiling"
         [] r.progression_rationale.kind = "plateau_reset" -> "reset"
         [] OTHER -> ""

(* C23: as the lifter keeps logging sessions at the same weight and each    *)
(* call detects a genuine plateau, the strategy is the one indexed by the   *)
(* number of active entries at the last weight mod 4 in [micro_load,        *)
(* add_set, extend_rep_ceiling, reset], and the strategies chosen by two    *)
(* consecutive plateau resolutions always differ, also when a session       *)
(* consists of several sets logged at that weight.                          *)
C23_ConsecutiveStrategiesDiffer ==
  [][(rec = <<>> /\ rec' # <<>> /\ StrategyApplied(rec'[1]) # "")
       => /\ StrategyApplied(rec'[1]) = Strategies[(Len(history) % 4) + 1]
          /\ (call # <<>> /\ StrategyApplied(call[1].out) # "")
               => StrategyApplied(rec'[1]) # StrategyApplied(call[1].out)]_vars


\* the requested exercise's entries as the engine reads them, and whether the
\* call met a genuine plateau
GenuinePlateau ==
  /\ Called
  /\ Result.training_status = "plateau"
  /\ detectPlateau(ActiveHistory(req.exercise, history))

\* the strategy whose turn it is: the active entries at the last weight, mod 4
StrategyDue ==
  Strategies[(Cardinality({i \in MineActive : history[i].weight = NewestEntry.weight}) % 4) + 1]

(* C24: when a genuine plateau is detected the chosen strategy fixes the    *)
(* prescription for every exercise and phase: micro_load gives the last     *)
(* weight plus half the exercise's load increment with target_reps =        *)
(* rep_min; add_set leaves weight and set count unchanged;                  *)
(* extend_rep_ceiling leaves the weight unchanged with target_reps =        *)
(* rep_max + 2; reset gives the last weight * 0.9 rounded to 1.25 kg with   *)
(* target_reps = rep_max; in all four cases plateau_strategy_applied is set. *)
C24_StrategyFixesPrescription ==
  GenuinePlateau
    => LET phaseConfig == getPhaseConfig(req.phase)
           increment == getExerciseConfig(req.exercise).load_increment
           last == NewestEntry.weight
           p == Result.prescription
       IN  /\ HasFlag(Result, "plateau_strategy_applied")
           /\ p.sets = RNum(RInt(getAdjustedSets(phaseConfig.base_sets, req.userAge)))
           /\ CASE StrategyDue = "micro_load" ->
                     /\ p.weight_kg = RNum(RAdd(last, RDiv(increment, RInt(2))))
                     /\ p.target_reps = RNum(RInt(phaseConfig.rep_min))
                [] StrategyDue = "add_set" -> p.weight_kg = RNum(last)
                [] StrategyDue = "extend_rep_ceiling" ->
                     /\ p.weight_kg = RNum(last)
                     /\ p.target_reps = RNum(RInt(phaseConfig.rep_max + 2))
                [] StrategyDue = "reset" ->
                     /\ p.weight_kg = RNum(roundToIncrement(RMul(last, Rat(9, 10))))
                     /\ p.target_reps = RNum(RInt(phaseConfig.rep_max))


(* C25: when the status is regressing the result has the flag               *)
(* recovery_week_recommended, sets = max(2, round(adjusted sets / 2)),      *)
(* which never exceeds the adjusted set count, weight = 0.75 * the last     *)
(* working weight rounded to 1.25 kg, and an effort-margin target two above *)
(* the normal target for that phase and exercise.                           *)
C25_DeloadPrescription ==
  (Called /\ Result.training_status = "regressing")
    => LET phaseConfig == getPhaseConfig(req.phase)
           exerciseConfig == getExerciseConfig(req.exercise)
           adjustedSets == getAdjustedSets(phaseConfig.base_sets, req.userAge)
           half == MathRound(Rat(adjustedSets, 2))
           deloadSets == IF half > 2 THEN half ELSE 2
           p == Result.prescription
       IN  /\ HasFlag(Result, "recovery_week_recommended")
           /\ p.sets = RNum(RInt(deloadSets))
           /\ deloadSets <= adjustedSets
           /\ p.weight_kg = RNum(roundToIncrement(RMul(NewestEntry.weight, Rat(75, 100))))
           /\ p.rir_target = phaseConfig.rir_target + exerciseConfig.rir_adjustment + 2
           /\ p.target_reps = RUndefined

\* a deload for an exercise with an effort-margin adjustment of its own
C25_Witness ==
  /\ Called
  /\ Result.training_status = "regressing"
  /\ getExerciseConfig(req.exercise).rir_adjustment > 0
  /\ HasFlag(Result, "recovery_week_recommended")
  /\ Result.prescription.rir_target = getPhaseConfig(req.phase).rir_target + 3


(* C26: for every result with status progressing, reasoning_breakdown's     *)
(* next_step announces a weight increase iff the prescribed weight is       *)
(* greater than the last entry's weight (so not when the last reps reached  *)
(* rep_max with an effort margin above the phase target, where the weight   *)
(* is held), and a rep target named by next_step is the result's            *)
(* target_reps.                                                             *)
C26_NextStepAgreesWithPrescription ==
  (Called /\ Result.training_status = "progressing")
    => LET nextStep == Result.reasoning_breakdown.next_step
           p == Result.prescription
       IN  /\ (nextStep.kind = "time_to_increase_weight")
                <=> (p.weight_kg.tag = "num" /\ RGt(p.weight_kg.val, NewestEntry.weight))
           /\ (p.target_reps.tag = "num" /\ nextStep.kind = "keep_pushing_target")
                => nextStep.args = p.target_reps.val


\* the distinct dates of the requested exercise's active entries
SessionDates == {history[i].date : i \in MineActive}

(* C27: once the edge-case guards have passed (at least 2 distinct session  *)
(* dates, last session at most 14 days old) the classified status is        *)
(* progressing, plateau or regressing, never insufficient_data; so no       *)
(* result carries progressive_loading_from_recent_session or                *)
(* baseline_establishment_phase, and status insufficient_data comes only    *)
(* with returning_from_break or benchmark_analysis_failed.                  *)
C27_InsufficientDataOnlyFromGuards ==
  Called
    => /\ (Cardinality(SessionDates) >= 2 /\ DayGap <= 14)
            => Result.training_status \in {"progressing", "plateau", "regressing"}
       /\ ~HasFlag(Result, "progressive_loading_from_recent_session")
       /\ ~HasFlag(Result, "baseline_establishment_phase")
       /\ Result.training_status = "insufficient_data"
            => \/ HasFlag(Result, "returning_from_break")
               \/ HasFlag(Result, "benchmark_analysis_failed")

\* two sessions within 14 days and nothing older: the short-term comparison
\* classifies them
C27_Witness ==
  /\ Called
  /\ Cardinality(SessionDates) = 2
  /\ Cardinality(MineActive) = 2
  /\ DayGap <= 14
  /\ WindowBest(28, 42) = RZero
  /\ Result.training_status = "progressing"


(* C28: for every 'now', whenever the active history is non-empty and the   *)
(* long-break guard does not fire (days since the last session <= 14), the  *)
(* most recent active entry lies inside the inclusive 0-14-day window, and  *)
(* a history whose newest entry is exactly 14 days old and no weaker than   *)
(* the 28-42-day best is not classified regressing.                         *)
C28_GuardAndWindowAreComplementary ==
  (Called /\ MineActive # {} /\ ~HasFlag(Result, "returning_from_break"))
    => /\ DayGap <= 14
       /\ DateTicks(LatestDate) >= now - 14 * TicksPerDay
       /\ DateTicks(LatestDate) <= now
       /\ (DayGap = 14 /\ RGe(E1RMOf(NewestEntry), WindowBest(28, 42)))
            => Result.training_status # "regressing"


\* the exercise asked for has no estimate modifier in EXERCISE_CONFIG
NoEstimateModifier == getExerciseConfig(req.exercise).e1rm_modifier = RZero

(* C29: for every exercise without an estimate modifier, a result that      *)
(* carries significant_strength_loss_detected has training_status           *)
(* 'regressing' and also carries recovery_week_recommended, so the flag     *)
(* never accompanies a progressing or plateau prescription.                 *)
C29_StrengthLossImpliesRegressing ==
  (Called /\ NoEstimateModifier
          /\ HasFlag(Result, "significant_strength_loss_detected"))
    => /\ Result.training_status = "regressing"
       /\ HasFlag(Result, "recovery_week_recommended")

\* a strength loss was flagged for an exercise without modifier
C29_Witness ==
  /\ Called
  /\ NoEstimateModifier
  /\ HasFlag(Result, "significant_strength_loss_detected")
  /\ RGt(WindowBest(0, 14), RZero)


\* the caller's history with the order of its entries reversed
Reversed(h) == [i \in DOMAIN h |-> h[Len(h) + 1 - i]]

\* several active entries of the requested exercise carry the newest date
SeveralSetsInLatestSession ==
  Cardinality({i \in MineActive : history[i].date = LatestDate}) >= 2

(* C30: when several active entries share the maximal date, the entry used  *)
(* as last entry by generateRecommendation (last weight, last reps, last    *)
(* effort margin) is the first of them in the caller's history order, not   *)
(* the set with the highest estimate.                                       *)
C30_LastEntryIsFirstOfLatestSession ==
  (Called /\ MineActive # {}
          /\ Result.reasoning_breakdown.last_session.kind \in {"weight_reps", "weight_reps_rir"})
    => /\ Result.reasoning_breakdown.last_session.args
            = NewestEntry.weight \o <<NewestEntry.reps>> \o RirArgs(NewestEntry.rir)
       /\ (Result.training_status = "progressing" /\ ~ToppedOut /\ RGt(NewestEntry.weight, RZero))
            => /\ Result.prescription.weight_kg = RNum(NewestEntry.weight)
               /\ Result.prescription.target_reps = NextRepTarget

\* the latest session holds a set stronger than its first one, and the same
\* sets in the opposite order receive another prescription
C30_Witness ==
  /\ Called
  /\ SeveralSetsInLatestSession
  /\ Result.reasoning_breakdown.last_session.kind = "weight_reps_rir"
  /\ \E i \in MineActive : /\ history[i].date = LatestDate
                           /\ RGt(E1RMOf(history[i]), E1RMOf(NewestEntry))
  /\ generateRecommendation(req.exercise, Reversed(history), req.userAge, req.phase).prescription
       # Result.prescription

====
